---- MODULE Spec2Model ----
(***************************************************************************)
(* A model of the seokar on-page SEO analysis library.                     *)
(*                                                                         *)
(*   seokar/seokar.py    class Seokar: the analysis engine (URL resolver,  *)
(*                       analyzers, scorer, recommendation aggregator)     *)
(*   seokar/analyzer.py  class SeokarAnalyzer: the fetching analyzer       *)
(*                                                                         *)
(* Python strings are sequences of one-character strings, so that parsing, *)
(* joining, stripping and case folding are computed and not assumed.       *)
(***************************************************************************)
EXTENDS Integers, Sequences, FiniteSets, TLC

(***************************************************************************)
(* Python str and Optional[str]                                            *)
(***************************************************************************)

\* Python None where an Optional[str] is expected: no string holds this token.
NoneStr == <<"None">>

\* bool(s) of an Optional[str]: None and "" are falsy.
Truthy(s) == s # NoneStr /\ s # <<>>

IsSpace(c) == c \in {" ", "\t", "\n", "\r"}

UpperLetters == <<"A","B","C","D","E","F","G","H","I","J","K","L","M",
                  "N","O","P","Q","R","S","T","U","V","W","X","Y","Z">>

LowerLetters == <<"a","b","c","d","e","f","g","h","i","j","k","l","m",
                  "n","o","p","q","r","s","t","u","v","w","x","y","z">>

Digits == {"0","1","2","3","4","5","6","7","8","9"}

Range(f) == {f[i] : i \in DOMAIN f}

IsAlpha(c) == c \in Range(UpperLetters) \cup Range(LowerLetters)

\* str.lower() on one character
LowerChar(c) ==
    IF c \in Range(UpperLetters)
    THEN LowerLetters[CHOOSE i \in 1..26 : UpperLetters[i] = c]
    ELSE c

\* str.lower()
Lower(s) == [i \in 1..Len(s) |-> LowerChar(s[i])]

RECURSIVE LStrip(_)
LStrip(s) == IF s # <<>> /\ IsSpace(Head(s)) THEN LStrip(Tail(s)) ELSE s

RECURSIVE RStrip(_)
RStrip(s) ==
    IF s # <<>> /\ IsSpace(s[Len(s)]) THEN RStrip(SubSeq(s, 1, Len(s) - 1)) ELSE s

\* str.strip()
Strip(s) == RStrip(LStrip(s))

\* str.startswith(p)
StartsWith(s, p) == Len(s) >= Len(p) /\ SubSeq(s, 1, Len(p)) = p

\* s[from:] with the model's 1-based positions
From(s, from) == SubSeq(s, from, Len(s))

\* str.find over a set of characters, searching from position `from`:
\* the first position holding one of them, 0 when there is none.
FindAnyFrom(s, cs, from) ==
    LET hits == {i \in from..Len(s) : s[i] \in cs}
    IN  IF hits = {} THEN 0 ELSE CHOOSE i \in hits : \A j \in hits : i <= j

Find(s, c) == FindAnyFrom(s, {c}, 1)

\* str.find(p) for a substring p: its first position, 0 when absent.
FindSub(s, p) ==
    LET hits == {i \in 1..(Len(s) - Len(p) + 1) : SubSeq(s, i, i + Len(p) - 1) = p}
    IN  IF hits = {} THEN 0 ELSE CHOOSE i \in hits : \A j \in hits : i <= j

\* str.replace(p, '', 1): the first occurrence of p removed, wherever it is.
RemoveFirst(s, p) ==
    LET i == FindSub(s, p)
    IN  IF i = 0 THEN s ELSE SubSeq(s, 1, i - 1) \o From(s, i + Len(p))

\* str.split(c): the segments between the occurrences of c (at least one segment).
RECURSIVE Split(_, _)
Split(s, c) ==
    LET i == Find(s, c)
    IN  IF i = 0 THEN <<s>> ELSE <<SubSeq(s, 1, i - 1)>> \o Split(From(s, i + 1), c)

\* c.join(parts)
RECURSIVE Join(_, _)
Join(parts, c) ==
    IF parts = <<>> THEN <<>>
    ELSE IF Len(parts) = 1 THEN parts[1]
    ELSE parts[1] \o <<c>> \o Join(Tail(parts), c)

\* str.rstrip('/')
RECURSIVE RStripSlash(_)
RStripSlash(s) ==
    IF s # <<>> /\ s[Len(s)] = "/" THEN RStripSlash(SubSeq(s, 1, Len(s) - 1)) ELSE s

(***************************************************************************)
(* urllib.parse, as imported by seokar.py: urlparse and urljoin            *)
(***************************************************************************)

SchemeHttp == <<"h","t","t","p">>

SchemeHttps == <<"h","t","t","p","s">>

SchemeFtp == <<"f","t","p">>

SchemeFile == <<"f","i","l","e">>

\* The schemes of urllib.parse.uses_relative and uses_netloc that a reference of
\* the model can carry ('' is the scheme-less reference).
uses_relative == {<<>>, SchemeFtp, SchemeHttp, SchemeHttps, SchemeFile}

uses_netloc == {<<>>, SchemeFtp, SchemeHttp, SchemeHttps, SchemeFile}

scheme_chars == Range(UpperLetters) \cup Range(LowerLetters) \cup Digits \cup {"+", "-", "."}

\* The part of s before the first c (all of s without one), and the part after it.
BeforeChar(s, c) ==
    LET i == Find(s, c) IN IF i = 0 THEN s ELSE SubSeq(s, 1, i - 1)

AfterChar(s, c) ==
    LET i == Find(s, c) IN IF i = 0 THEN <<>> ELSE From(s, i + 1)

\* urlsplit, last step: the fragment is split off at the first '#', then the
\* query at the first '?'.
ParseTail(scheme, netloc, rest) ==
    [scheme |-> scheme, netloc |-> netloc,
     path |-> BeforeChar(BeforeChar(rest, "#"), "?"),
     query |-> AfterChar(BeforeChar(rest, "#"), "?"),
     fragment |-> AfterChar(rest, "#")]

\* _splitnetloc(url, 2): where the netloc of '//netloc...' ends.
NetlocEnd(rest) ==
    LET d == FindAnyFrom(rest, {"/", "?", "#"}, 3)
    IN  IF d = 0 THEN Len(rest) + 1 ELSE d

\* urlsplit, the netloc: present when the rest begins with '//'.
ParseNetloc(scheme, rest) ==
    IF StartsWith(rest, <<"/", "/">>)
    THEN ParseTail(scheme, SubSeq(rest, 3, NetlocEnd(rest) - 1), From(rest, NetlocEnd(rest)))
    ELSE ParseTail(scheme, <<>>, rest)

\* urlsplit, the scheme: the position of the ':' that ends a scheme, 0 without one
\* (the first character a letter, the others scheme characters).
SchemeEnd(url) ==
    LET i == Find(url, ":")
    IN  IF i > 1 /\ IsAlpha(url[1]) /\ \A k \in 1..(i - 1) : url[k] \in scheme_chars
        THEN i ELSE 0

ParseScheme(url, default, i) ==
    IF i > 0
    THEN ParseNetloc(Lower(SubSeq(url, 1, i - 1)), From(url, i + 1))
    ELSE ParseNetloc(default, url)

\* urlparse(url, scheme=default): scheme (lower-cased), netloc, path, query and
\* fragment of a reference. Parameters (';') are not part of the model's alphabet.
urlparse_default(url, default) ==
    ParseScheme(LStrip(url), default, SchemeEnd(LStrip(url)))

urlparse(url) == urlparse_default(url, <<>>)

\* urlunsplit, the authority: '//' + netloc before the path.
UnparseAuthority(p) ==
    IF \/ p.netloc # <<>>
       \/ (p.scheme # <<>> /\ p.scheme \in uses_netloc
           /\ ~StartsWith(p.path, <<"/", "/">>))
    THEN <<"/", "/">> \o p.netloc
         \o (IF p.path # <<>> /\ p.path[1] # "/" THEN <<"/">> ELSE <<>>)
         \o p.path
    ELSE p.path

\* urlunparse: the reference a parse result stands for.
urlunparse(p) ==
    (IF p.scheme # <<>> THEN p.scheme \o <<":">> ELSE <<>>)
    \o UnparseAuthority(p)
    \o (IF p.query # <<>> THEN <<"?">> \o p.query ELSE <<>>)
    \o (IF p.fragment # <<>> THEN <<"#">> \o p.fragment ELSE <<>>)

\* segments[1:-1] = filter(None, segments[1:-1]): the empty inner segments dropped.
DropEmptyInner(segs) ==
    IF Len(segs) <= 2 THEN segs
    ELSE <<segs[1]>>
         \o SelectSeq(SubSeq(segs, 2, Len(segs) - 1), LAMBDA x : x # <<>>)
         \o <<segs[Len(segs)]>>

\* The loop of urljoin over the segments: '..' pops, '.' is skipped.
RECURSIVE ResolveSegments(_, _)
ResolveSegments(segs, acc) ==
    IF segs = <<>> THEN acc
    ELSE IF Head(segs) = <<".", ".">>
    THEN ResolveSegments(Tail(segs),
                         IF acc = <<>> THEN acc ELSE SubSeq(acc, 1, Len(acc) - 1))
    ELSE IF Head(segs) = <<".">>
    THEN ResolveSegments(Tail(segs), acc)
    ELSE ResolveSegments(Tail(segs), Append(acc, Head(segs)))

\* base_parts of urljoin: the base path's segments without its last, non-directory one.
BaseParts(parts) ==
    IF parts[Len(parts)] # <<>> THEN SubSeq(parts, 1, Len(parts) - 1) ELSE parts

\* The path of the joined reference, from the segments to resolve.
ResolvedPath(segments) ==
    Join(ResolveSegments(segments, <<>>)
         \o (IF segments[Len(segments)] \in {<<".">>, <<".", ".">>} THEN <<<<>>>> ELSE <<>>),
         "/")

OrSlash(path) == IF path = <<>> THEN <<"/">> ELSE path

MergePaths(bpath, path) ==
    OrSlash(ResolvedPath(IF path[1] = "/" THEN Split(path, "/")
                         ELSE DropEmptyInner(BaseParts(Split(bpath, "/")) \o Split(path, "/"))))

\* urljoin once both references are parsed (u with the base's scheme as default).
JoinParsed(b, u, url) ==
    IF u.scheme # b.scheme \/ u.scheme \notin uses_relative THEN url
    ELSE IF u.scheme \in uses_netloc /\ u.netloc # <<>> THEN urlunparse(u)
    ELSE urlunparse(
           [scheme |-> u.scheme,
            netloc |-> IF u.scheme \in uses_netloc THEN b.netloc ELSE u.netloc,
            path |-> IF u.path = <<>> THEN b.path ELSE MergePaths(b.path, u.path),
            query |-> IF u.path = <<>> /\ u.query = <<>> THEN b.query ELSE u.query,
            fragment |-> u.fragment])

JoinWithBase(b, url) == JoinParsed(b, urlparse_default(url, b.scheme), url)

\* urljoin(base, url)
urljoin(base, url) ==
    IF base = <<>> THEN url
    ELSE IF url = <<>> THEN base
    ELSE JoinWithBase(urlparse(base), url)

(***************************************************************************)
(* The references, base declarations and source addresses of the model     *)
(***************************************************************************)

\* 'https://a.com/x'
Ref_https_a_com_x ==
    <<"h","t","t","p","s",":","/","/","a",".","c","o","m","/","x">>

\* 'http://b.com/dir/p.html'
Ref_http_b_com_dir_p ==
    <<"h","t","t","p",":","/","/","b",".","c","o","m","/","d","i","r","/","p",".",
      "h","t","m","l">>

\* 'HTTPS://WWW.Example.com/'
Ref_HTTPS_WWW_Example_com ==
    <<"H","T","T","P","S",":","/","/","W","W","W",".","E","x","a","m","p","l","e",
      ".","c","o","m","/">>

\* 'https://awww.example.com/'
Ref_https_awww_example_com ==
    <<"h","t","t","p","s",":","/","/","a","w","w","w",".","e","x","a","m","p","l",
      "e",".","c","o","m","/">>

\* 'https://example.com/page'
Ref_https_example_com_page ==
    <<"h","t","t","p","s",":","/","/","e","x","a","m","p","l","e",".","c","o","m",
      "/","p","a","g","e">>

\* 'https://other.org/'
Ref_https_other_org ==
    <<"h","t","t","p","s",":","/","/","o","t","h","e","r",".","o","r","g","/">>

\* 'https://www.www.example.com/'
Ref_https_www_www_example_com ==
    <<"h","t","t","p","s",":","/","/","w","w","w",".","w","w","w",".","e","x","a",
      "m","p","l","e",".","c","o","m","/">>

\* 'mailto:a@b.com'
Ref_mailto ==
    <<"m","a","i","l","t","o",":","a","@","b",".","c","o","m">>

\* 'tel:123'
Ref_tel ==
    <<"t","e","l",":","1","2","3">>

\* 'ftp://f.org/d'
Ref_ftp_f_org_d ==
    <<"f","t","p",":","/","/","f",".","o","r","g","/","d">>

\* 'sms:123'
Ref_sms ==
    <<"s","m","s",":","1","2","3">>

\* '/y'
Ref_root_y ==
    <<"/","y">>

\* '//cdn.com/x'
Ref_protocol_relative ==
    <<"/","/","c","d","n",".","c","o","m","/","x">>

\* 'p.html'
Ref_p_html ==
    <<"p",".","h","t","m","l">>

\* '../another.html'
Ref_up_another ==
    <<".",".","/","a","n","o","t","h","e","r",".","h","t","m","l">>

\* '#'
Ref_hash ==
    <<"#">>

\* 'http:p.html'
Ref_http_no_host ==
    <<"h","t","t","p",":","p",".","h","t","m","l">>

\* ' '
Ref_blank ==
    <<" ">>

\* 'https://b.com/dir/'
Base_https_b_com_dir ==
    <<"h","t","t","p","s",":","/","/","b",".","c","o","m","/","d","i","r","/">>

\* 'https://base.example.com/folder/'
Base_https_base_example_com_folder ==
    <<"h","t","t","p","s",":","/","/","b","a","s","e",".","e","x","a","m","p","l",
      "e",".","c","o","m","/","f","o","l","d","e","r","/">>

\* ' https://b.com/dir/ '
Base_padded ==
    <<" ","h","t","t","p","s",":","/","/","b",".","c","o","m","/","d","i","r","/",
      " ">>

\* 'ftp://f.org/pub/'
Base_ftp_f_org_pub ==
    <<"f","t","p",":","/","/","f",".","o","r","g","/","p","u","b","/">>

\* '/r/'
Base_root_r ==
    <<"/","r","/">>

\* 'sub/'
Base_sub ==
    <<"s","u","b","/">>

\* 'https://a.com/z'
Url_https_a_com_z ==
    <<"h","t","t","p","s",":","/","/","a",".","c","o","m","/","z">>

\* 'https://example.com'
Url_https_example_com ==
    <<"h","t","t","p","s",":","/","/","e","x","a","m","p","l","e",".","c","o","m">>

\* 'https://www.example.com/p'
Url_https_www_example_com_p ==
    <<"h","t","t","p","s",":","/","/","w","w","w",".","e","x","a","m","p","l","e",
      ".","c","o","m","/","p">>

\* 'https://aexample.com'
Url_https_aexample_com ==
    <<"h","t","t","p","s",":","/","/","a","e","x","a","m","p","l","e",".","c","o",
      "m">>

\* 'https://original.example.com'
Url_https_original_example_com ==
    <<"h","t","t","p","s",":","/","/","o","r","i","g","i","n","a","l",".","e","x",
      "a","m","p","l","e",".","c","o","m">>

\* 'http://a.com/d/e.html'
Url_http_a_com_d_e ==
    <<"h","t","t","p",":","/","/","a",".","c","o","m","/","d","/","e",".","h","t",
      "m","l">>

\* 'ftp://a.com/z'
Url_ftp_a_com_z ==
    <<"f","t","p",":","/","/","a",".","c","o","m","/","z">>

\* 'a.com/z'
Url_no_scheme ==
    <<"a",".","c","o","m","/","z">>

\* 'https://a.com/y'
Res_https_a_com_y ==
    <<"h","t","t","p","s",":","/","/","a",".","c","o","m","/","y">>

\* 'https://b.com/dir/p.html'
Res_https_b_com_dir_p ==
    <<"h","t","t","p","s",":","/","/","b",".","c","o","m","/","d","i","r","/","p",
      ".","h","t","m","l">>

\* 'www.'
WwwDot ==
    <<"w","w","w",".">>


\* References that carry an http/https scheme and a host.
WebAbsoluteRefs ==
    {Ref_https_a_com_x, Ref_http_b_com_dir_p, Ref_HTTPS_WWW_Example_com,
     Ref_https_awww_example_com, Ref_https_example_com_page, Ref_https_other_org,
     Ref_https_www_www_example_com}

\* References that carry a scheme other than http/https.
NonWebRefs == {Ref_mailto, Ref_tel, Ref_ftp_f_org_d, Ref_sms}

\* References without a scheme that begin with '/'.
RootRelativeRefs == {Ref_root_y, Ref_protocol_relative}

\* References without a scheme that do not begin with '/'.
PathRelativeRefs == {Ref_p_html, Ref_up_another, Ref_hash}

\* None, '' and ' '.
BlankRefs == {NoneStr, <<>>, Ref_blank}

\* What a caller hands to _make_absolute_url (get_canonical_url, get_favicon_url and
\* _extract_links strip the attribute first), and a whitespace-only reference.
Hrefs ==
    WebAbsoluteRefs \cup NonWebRefs \cup RootRelativeRefs \cup PathRelativeRefs
    \cup {Ref_http_no_host} \cup BlankRefs

\* The href of the document's first <base href=...>: none, empty, whitespace-only.
BlankBases == {NoneStr, <<>>, Ref_blank}

\* Base declarations with a scheme and a host.
AbsoluteBases ==
    {Base_https_b_com_dir, Base_https_base_example_com_folder, Base_padded,
     Base_ftp_f_org_pub}

\* Base declarations without a host.
RelativeBases == {Base_root_r, Base_sub}

BaseHrefs == BlankBases \cup AbsoluteBases \cup RelativeBases

\* Source addresses that Seokar.__init__ keeps.
ValidUrls ==
    {Url_https_a_com_z, Url_https_example_com, Url_https_www_example_com_p,
     Url_https_aexample_com, Url_https_original_example_com, Url_http_a_com_d_e}

\* Source addresses that Seokar.__init__ drops: none given, no web scheme, no scheme.
InvalidUrls == {NoneStr, <<>>, Url_ftp_a_com_z, Url_no_scheme}

UrlInputs == ValidUrls \cup InvalidUrls

\* What _is_internal_url is asked about: resolved references and their like.
Candidates == Hrefs \cup {Res_https_a_com_y, Res_https_b_com_dir_p}

(***************************************************************************)
(* Seokar: URL resolver                                                    *)
(***************************************************************************)

WebSchemes == {SchemeHttp, SchemeHttps}

_is_valid_url(url_string) ==
    IF ~Truthy(url_string) THEN FALSE
    ELSE LET result == urlparse(url_string)
         IN  result.scheme \in WebSchemes /\ result.netloc # <<>>

\* Seokar.__init__: the source address kept by the instance.
InitUrl(url_arg) ==
    IF Truthy(url_arg) /\ _is_valid_url(url_arg) THEN url_arg ELSE NoneStr

\* effective_base_url with the priority reversed: a valid source address wins over the
\* document's base declaration.
effective_base_url_source_first(base_href, url) ==
    IF Truthy(url) /\ _is_valid_url(url) THEN url
    ELSE IF Truthy(base_href) /\ Strip(base_href) # <<>>
            /\ urlparse(Strip(base_href)).scheme # <<>>
            /\ urlparse(Strip(base_href)).netloc # <<>>
    THEN Strip(base_href)
    ELSE NoneStr

\* The base that _make_absolute_url joins a relative reference onto; base_href is
\* the href of soup.find('base', href=True), NoneStr without such an element.
effective_base_url(base_href, url) ==
    IF Truthy(base_href)
    THEN LET base_tag_href_stripped == Strip(base_href)
         IN  IF base_tag_href_stripped = <<>>
             THEN IF Truthy(url) /\ _is_valid_url(url) THEN url ELSE NoneStr
             ELSE LET parsed_base_tag_href == urlparse(base_tag_href_stripped)
                  IN  IF /\ parsed_base_tag_href.scheme # <<>>
                         /\ parsed_base_tag_href.netloc # <<>>
                      THEN base_tag_href_stripped
                      ELSE IF Truthy(url) /\ _is_valid_url(url)
                      THEN urljoin(url, base_tag_href_stripped)
                      ELSE NoneStr
    ELSE IF Truthy(url) /\ _is_valid_url(url) THEN url
    ELSE NoneStr

\* Whether _make_absolute_url returns before it looks for a base.
ReturnsEarly(href) ==
    \/ ~Truthy(href)
    \/ Strip(href) = <<>>
    \/ LET parsed_href == urlparse(Strip(href))
       IN  /\ parsed_href.scheme # <<>>
           /\ \/ parsed_href.scheme \in WebSchemes /\ parsed_href.netloc # <<>>
              \/ parsed_href.scheme \notin WebSchemes

\* _make_absolute_url without the early return for references that carry a scheme.
_make_absolute_url_always_joins(base_href, url, href) ==
    IF ~Truthy(href) \/ Strip(href) = <<>> THEN NoneStr
    ELSE IF ~Truthy(effective_base_url(base_href, url))
    THEN IF StartsWith(Strip(href), <<"/">>) THEN Strip(href) ELSE NoneStr
    ELSE urljoin(effective_base_url(base_href, url), Strip(href))

\* _make_absolute_url that hands back any reference it has no base for.
_make_absolute_url_keeps_unresolved(base_href, url, href) ==
    IF ~Truthy(href) \/ Strip(href) = <<>> THEN NoneStr
    ELSE IF ReturnsEarly(href) \/ ~Truthy(effective_base_url(base_href, url))
    THEN Strip(href)
    ELSE urljoin(effective_base_url(base_href, url), Strip(href))

_make_absolute_url(base_href, url, href) ==
    IF ~Truthy(href) \/ Strip(href) = <<>> THEN NoneStr
    ELSE LET href_stripped == Strip(href)
         IN  IF ReturnsEarly(href) THEN href_stripped
             ELSE LET base == effective_base_url(base_href, url)
                  IN  IF ~Truthy(base)
                      THEN IF StartsWith(href_stripped, <<"/">>)
                           THEN href_stripped ELSE NoneStr
                      ELSE urljoin(base, href_stripped)

_is_internal_url(url, url_to_check) ==
    IF ~Truthy(url) \/ ~Truthy(url_to_check) \/ ~_is_valid_url(url)
    THEN ~Truthy(url_to_check) \/ urlparse(url_to_check).scheme = <<>>
    ELSE LET base_parsed == urlparse(url)
             target_parsed == urlparse(url_to_check)
             norm_base_domain == Lower(RemoveFirst(base_parsed.netloc, WwwDot))
             norm_target_domain == Lower(RemoveFirst(target_parsed.netloc, WwwDot))
         IN  IF target_parsed.netloc = <<>> THEN TRUE
             ELSE norm_target_domain = norm_base_domain

(***************************************************************************)
(* Seokar: recommendation texts of the findings                            *)
(***************************************************************************)

\* line 667: 'Ensure your top-level JSON-LD is a JSON object or an array of JSON objects.'
Rec_InvalidJSONLDTopLevelStructure ==
    <<"E","n","s","u","r","e"," ","y","o","u","r"," ","t","o","p","-","l","e","v",
      "e","l"," ","J","S","O","N","-","L","D"," ","i","s"," ","a"," ","J","S","O",
      "N"," ","o","b","j","e","c","t"," ","o","r"," ","a","n"," ","a","r","r","a",
      "y"," ","o","f"," ","J","S","O","N"," ","o","b","j","e","c","t","s",".">>

\* line 671: 'Remove empty JSON-LD script tags or populate them with valid structured data.'
Rec_EmptyJSONLDScriptTag ==
    <<"R","e","m","o","v","e"," ","e","m","p","t","y"," ","J","S","O","N","-","L",
      "D"," ","s","c","r","i","p","t"," ","t","a","g","s"," ","o","r"," ","p","o",
      "p","u","l","a","t","e"," ","t","h","e","m"," ","w","i","t","h"," ","v","a",
      "l","i","d"," ","s","t","r","u","c","t","u","r","e","d"," ","d","a","t","a",
      ".">>

\* line 679: "Validate your JSON-LD markup (e.g., using Google's Rich Results Test or Schema Markup Validator)."
Rec_JSONLDParsingError ==
    <<"V","a","l","i","d","a","t","e"," ","y","o","u","r"," ","J","S","O","N","-",
      "L","D"," ","m","a","r","k","u","p"," ","(","e",".","g",".",","," ","u","s",
      "i","n","g"," ","G","o","o","g","l","e","'","s"," ","R","i","c","h"," ","R",
      "e","s","u","l","t","s"," ","T","e","s","t"," ","o","r"," ","S","c","h","e",
      "m","a"," ","M","a","r","k","u","p"," ","V","a","l","i","d","a","t","o","r",
      ")",".">>

\* line 820: 'Add a unique, descriptive title (30-60 chars).'
Rec_MissingTitleTag ==
    <<"A","d","d"," ","a"," ","u","n","i","q","u","e",","," ","d","e","s","c","r",
      "i","p","t","i","v","e"," ","t","i","t","l","e"," ","(","3","0","-","6","0",
      " ","c","h","a","r","s",")",".">>

\* line 825: 'Expand title.'
Rec_TitleTooShort ==
    <<"E","x","p","a","n","d"," ","t","i","t","l","e",".">>

\* line 826: 'Shorten title.'
Rec_TitleTooLong ==
    <<"S","h","o","r","t","e","n"," ","t","i","t","l","e",".">>

\* line 830: 'Add description (70-160 chars).'
Rec_MissingMetaDescription ==
    <<"A","d","d"," ","d","e","s","c","r","i","p","t","i","o","n"," ","(","7","0",
      "-","1","6","0"," ","c","h","a","r","s",")",".">>

\* line 833: 'Expand description.'
Rec_MetaDescriptionTooShort ==
    <<"E","x","p","a","n","d"," ","d","e","s","c","r","i","p","t","i","o","n",".">>

\* line 834: 'Shorten description.'
Rec_MetaDescriptionTooLong ==
    <<"S","h","o","r","t","e","n"," ","d","e","s","c","r","i","p","t","i","o","n",
      ".">>

\* line 837: 'Add if specific directives needed.'
Rec_MetaRobotsNotSpecified ==
    <<"A","d","d"," ","i","f"," ","s","p","e","c","i","f","i","c"," ","d","i","r",
      "e","c","t","i","v","e","s"," ","n","e","e","d","e","d",".">>

\* line 838: "Remove 'noindex' if page should be indexed."
Rec_PageIsNoindexed ==
    <<"R","e","m","o","v","e"," ","'","n","o","i","n","d","e","x","'"," ","i","f",
      " ","p","a","g","e"," ","s","h","o","u","l","d"," ","b","e"," ","i","n","d",
      "e","x","e","d",".">>

\* line 839: "Remove 'nofollow' if links should pass equity."
Rec_PageIsNofollow ==
    <<"R","e","m","o","v","e"," ","'","n","o","f","o","l","l","o","w","'"," ","i",
      "f"," ","l","i","n","k","s"," ","s","h","o","u","l","d"," ","p","a","s","s",
      " ","e","q","u","i","t","y",".">>

\* line 841: "Add <link rel='canonical'> pointing to the preferred version."
Rec_MissingCanonicalURL ==
    <<"A","d","d"," ","<","l","i","n","k"," ","r","e","l","=","'","c","a","n","o",
      "n","i","c","a","l","'",">"," ","p","o","i","n","t","i","n","g"," ","t","o",
      " ","t","h","e"," ","p","r","e","f","e","r","r","e","d"," ","v","e","r","s",
      "i","o","n",".">>

\* line 845: 'Ensure canonical points to the correct preferred version if this is not intentional.'
Rec_CanonicalURLMismatch ==
    <<"E","n","s","u","r","e"," ","c","a","n","o","n","i","c","a","l"," ","p","o",
      "i","n","t","s"," ","t","o"," ","t","h","e"," ","c","o","r","r","e","c","t",
      " ","p","r","e","f","e","r","r","e","d"," ","v","e","r","s","i","o","n"," ",
      "i","f"," ","t","h","i","s"," ","i","s"," ","n","o","t"," ","i","n","t","e",
      "n","t","i","o","n","a","l",".">>

\* line 849: Add '<meta name="viewport" content="width=device-width, initial-scale=1.0">'.
Rec_MissingViewportMetaTag ==
    <<"A","d","d"," ","'","<","m","e","t","a"," ","n","a","m","e","=","\"","v",
      "i","e","w","p","o","r","t","\""," ","c","o","n","t","e","n","t","=","\"",
      "w","i","d","t","h","=","d","e","v","i","c","e","-","w","i","d","t","h",",",
      " ","i","n","i","t","i","a","l","-","s","c","a","l","e","=","1",".","0",
      "\"",">","'",".">>

\* line 850: "Ensure 'width=device-width' and 'initial-scale=1.0'."
Rec_SuboptimalViewportConfiguration ==
    <<"E","n","s","u","r","e"," ","'","w","i","d","t","h","=","d","e","v","i","c",
      "e","-","w","i","d","t","h","'"," ","a","n","d"," ","'","i","n","i","t","i",
      "a","l","-","s","c","a","l","e","=","1",".","0","'",".">>

\* line 853: 'Declare <meta charset="UTF-8"> (recommended).'
Rec_CharsetNotDeclared ==
    <<"D","e","c","l","a","r","e"," ","<","m","e","t","a"," ","c","h","a","r","s",
      "e","t","=","\"","U","T","F","-","8","\"",">"," ","(","r","e","c","o","m",
      "m","e","n","d","e","d",")",".">>

\* line 854: 'Consider switching to UTF-8.'
Rec_NonUTF8CharsetUsed ==
    <<"C","o","n","s","i","d","e","r"," ","s","w","i","t","c","h","i","n","g"," ",
      "t","o"," ","U","T","F","-","8",".">>

\* line 857: Add 'lang' attribute to <html> tag (e.g., <html lang="en">).
Rec_HTMLLanguageNotDeclared ==
    <<"A","d","d"," ","'","l","a","n","g","'"," ","a","t","t","r","i","b","u","t",
      "e"," ","t","o"," ","<","h","t","m","l",">"," ","t","a","g"," ","(","e",".",
      "g",".",","," ","<","h","t","m","l"," ","l","a","n","g","=","\"","e","n",
      "\"",">",")",".">>

\* line 860: 'Add a specific favicon link tag for consistent branding.'
Rec_FaviconNotDetectedOrSpecified ==
    <<"A","d","d"," ","a"," ","s","p","e","c","i","f","i","c"," ","f","a","v","i",
      "c","o","n"," ","l","i","n","k"," ","t","a","g"," ","f","o","r"," ","c","o",
      "n","s","i","s","t","e","n","t"," ","b","r","a","n","d","i","n","g",".">>

\* line 877: 'Use heading tags (H1-H6) to structure your content logically for users and search engines.'
Rec_NoHeadingsFound ==
    <<"U","s","e"," ","h","e","a","d","i","n","g"," ","t","a","g","s"," ","(","H",
      "1","-","H","6",")"," ","t","o"," ","s","t","r","u","c","t","u","r","e"," ",
      "y","o","u","r"," ","c","o","n","t","e","n","t"," ","l","o","g","i","c","a",
      "l","l","y"," ","f","o","r"," ","u","s","e","r","s"," ","a","n","d"," ","s",
      "e","a","r","c","h"," ","e","n","g","i","n","e","s",".">>

\* line 882: "Add a single, descriptive H1 tag that accurately reflects the page's primary content."
Rec_MissingH1Tag ==
    <<"A","d","d"," ","a"," ","s","i","n","g","l","e",","," ","d","e","s","c","r",
      "i","p","t","i","v","e"," ","H","1"," ","t","a","g"," ","t","h","a","t"," ",
      "a","c","c","u","r","a","t","e","l","y"," ","r","e","f","l","e","c","t","s",
      " ","t","h","e"," ","p","a","g","e","'","s"," ","p","r","i","m","a","r","y",
      " ","c","o","n","t","e","n","t",".">>

\* line 886: 'Ensure a clear primary H1 for the page. If using multiple H1s per HTML5, verify they are within distinct sectioning content elements and are semantically appropriate.'
Rec_MultipleH1Tags ==
    <<"E","n","s","u","r","e"," ","a"," ","c","l","e","a","r"," ","p","r","i","m",
      "a","r","y"," ","H","1"," ","f","o","r"," ","t","h","e"," ","p","a","g","e",
      "."," ","I","f"," ","u","s","i","n","g"," ","m","u","l","t","i","p","l","e",
      " ","H","1","s"," ","p","e","r"," ","H","T","M","L","5",","," ","v","e","r",
      "i","f","y"," ","t","h","e","y"," ","a","r","e"," ","w","i","t","h","i","n",
      " ","d","i","s","t","i","n","c","t"," ","s","e","c","t","i","o","n","i","n",
      "g"," ","c","o","n","t","e","n","t"," ","e","l","e","m","e","n","t","s"," ",
      "a","n","d"," ","a","r","e"," ","s","e","m","a","n","t","i","c","a","l","l",
      "y"," ","a","p","p","r","o","p","r","i","a","t","e",".">>

\* line 896: "The primary page heading should be an H1. Ensure your content's heading structure starts with H1 and follows hierarchically (H1 -> H2 -> H3, etc.)."
Rec_HeadingStructureStartsIncorrectly ==
    <<"T","h","e"," ","p","r","i","m","a","r","y"," ","p","a","g","e"," ","h","e",
      "a","d","i","n","g"," ","s","h","o","u","l","d"," ","b","e"," ","a","n"," ",
      "H","1","."," ","E","n","s","u","r","e"," ","y","o","u","r"," ","c","o","n",
      "t","e","n","t","'","s"," ","h","e","a","d","i","n","g"," ","s","t","r","u",
      "c","t","u","r","e"," ","s","t","a","r","t","s"," ","w","i","t","h"," ","H",
      "1"," ","a","n","d"," ","f","o","l","l","o","w","s"," ","h","i","e","r","a",
      "r","c","h","i","c","a","l","l","y"," ","(","H","1"," ","-",">"," ","H","2",
      " ","-",">"," ","H","3",","," ","e","t","c",".",")",".">>

\* line 903: 'Maintain a logical heading hierarchy without skipping levels (e.g., use H2 after H1, H3 after H2, etc.).'
Rec_SkippedHeadingLevel ==
    <<"M","a","i","n","t","a","i","n"," ","a"," ","l","o","g","i","c","a","l"," ",
      "h","e","a","d","i","n","g"," ","h","i","e","r","a","r","c","h","y"," ","w",
      "i","t","h","o","u","t"," ","s","k","i","p","p","i","n","g"," ","l","e","v",
      "e","l","s"," ","(","e",".","g",".",","," ","u","s","e"," ","H","2"," ","a",
      "f","t","e","r"," ","H","1",","," ","H","3"," ","a","f","t","e","r"," ","H",
      "2",","," ","e","t","c",".",")",".">>

\* line 921: 'Consider keeping important headings like H1 concise (ideally less than 70 characters).'
Rec_H1TooLong ==
    <<"C","o","n","s","i","d","e","r"," ","k","e","e","p","i","n","g"," ","i","m",
      "p","o","r","t","a","n","t"," ","h","e","a","d","i","n","g","s"," ","l","i",
      "k","e"," ","H","1"," ","c","o","n","c","i","s","e"," ","(","i","d","e","a",
      "l","l","y"," ","l","e","s","s"," ","t","h","a","n"," ","7","0"," ","c","h",
      "a","r","a","c","t","e","r","s",")",".">>

\* line 921: 'Consider keeping important headings like H2 concise (ideally less than 70 characters).'
Rec_H2TooLong ==
    <<"C","o","n","s","i","d","e","r"," ","k","e","e","p","i","n","g"," ","i","m",
      "p","o","r","t","a","n","t"," ","h","e","a","d","i","n","g","s"," ","l","i",
      "k","e"," ","H","2"," ","c","o","n","c","i","s","e"," ","(","i","d","e","a",
      "l","l","y"," ","l","e","s","s"," ","t","h","a","n"," ","7","0"," ","c","h",
      "a","r","a","c","t","e","r","s",")",".">>

\* line 921: 'Consider keeping important headings like H3 concise (ideally less than 70 characters).'
Rec_H3TooLong ==
    <<"C","o","n","s","i","d","e","r"," ","k","e","e","p","i","n","g"," ","i","m",
      "p","o","r","t","a","n","t"," ","h","e","a","d","i","n","g","s"," ","l","i",
      "k","e"," ","H","3"," ","c","o","n","c","i","s","e"," ","(","i","d","e","a",
      "l","l","y"," ","l","e","s","s"," ","t","h","a","n"," ","7","0"," ","c","h",
      "a","r","a","c","t","e","r","s",")",".">>

\* line 925: 'Try to make important headings like H1 more focused and to the point (ideally less than 12 words).'
Rec_H1TooWordy ==
    <<"T","r","y"," ","t","o"," ","m","a","k","e"," ","i","m","p","o","r","t","a",
      "n","t"," ","h","e","a","d","i","n","g","s"," ","l","i","k","e"," ","H","1",
      " ","m","o","r","e"," ","f","o","c","u","s","e","d"," ","a","n","d"," ","t",
      "o"," ","t","h","e"," ","p","o","i","n","t"," ","(","i","d","e","a","l","l",
      "y"," ","l","e","s","s"," ","t","h","a","n"," ","1","2"," ","w","o","r","d",
      "s",")",".">>

\* line 925: 'Try to make important headings like H2 more focused and to the point (ideally less than 12 words).'
Rec_H2TooWordy ==
    <<"T","r","y"," ","t","o"," ","m","a","k","e"," ","i","m","p","o","r","t","a",
      "n","t"," ","h","e","a","d","i","n","g","s"," ","l","i","k","e"," ","H","2",
      " ","m","o","r","e"," ","f","o","c","u","s","e","d"," ","a","n","d"," ","t",
      "o"," ","t","h","e"," ","p","o","i","n","t"," ","(","i","d","e","a","l","l",
      "y"," ","l","e","s","s"," ","t","h","a","n"," ","1","2"," ","w","o","r","d",
      "s",")",".">>

\* line 925: 'Try to make important headings like H3 more focused and to the point (ideally less than 12 words).'
Rec_H3TooWordy ==
    <<"T","r","y"," ","t","o"," ","m","a","k","e"," ","i","m","p","o","r","t","a",
      "n","t"," ","h","e","a","d","i","n","g","s"," ","l","i","k","e"," ","H","3",
      " ","m","o","r","e"," ","f","o","c","u","s","e","d"," ","a","n","d"," ","t",
      "o"," ","t","h","e"," ","p","o","i","n","t"," ","(","i","d","e","a","l","l",
      "y"," ","l","e","s","s"," ","t","h","a","n"," ","1","2"," ","w","o","r","d",
      "s",")",".">>

\* line 939: 'Ensure main page content is within standard HTML elements (e.g., <main>, <article>, <p>) and not solely image-based or client-side rendered without fallbacks.'
Rec_NoMainContentTextExtracted ==
    <<"E","n","s","u","r","e"," ","m","a","i","n"," ","p","a","g","e"," ","c","o",
      "n","t","e","n","t"," ","i","s"," ","w","i","t","h","i","n"," ","s","t","a",
      "n","d","a","r","d"," ","H","T","M","L"," ","e","l","e","m","e","n","t","s",
      " ","(","e",".","g",".",","," ","<","m","a","i","n",">",","," ","<","a","r",
      "t","i","c","l","e",">",","," ","<","p",">",")"," ","a","n","d"," ","n","o",
      "t"," ","s","o","l","e","l","y"," ","i","m","a","g","e","-","b","a","s","e",
      "d"," ","o","r"," ","c","l","i","e","n","t","-","s","i","d","e"," ","r","e",
      "n","d","e","r","e","d"," ","w","i","t","h","o","u","t"," ","f","a","l","l",
      "b","a","c","k","s",".">>

\* line 943: 'Expand your content to provide more valuable, comprehensive, and relevant information for users and to meet search engine quality guidelines.'
Rec_ThinContentLowWordCount ==
    <<"E","x","p","a","n","d"," ","y","o","u","r"," ","c","o","n","t","e","n","t",
      " ","t","o"," ","p","r","o","v","i","d","e"," ","m","o","r","e"," ","v","a",
      "l","u","a","b","l","e",","," ","c","o","m","p","r","e","h","e","n","s","i",
      "v","e",","," ","a","n","d"," ","r","e","l","e","v","a","n","t"," ","i","n",
      "f","o","r","m","a","t","i","o","n"," ","f","o","r"," ","u","s","e","r","s",
      " ","a","n","d"," ","t","o"," ","m","e","e","t"," ","s","e","a","r","c","h",
      " ","e","n","g","i","n","e"," ","q","u","a","l","i","t","y"," ","g","u","i",
      "d","e","l","i","n","e","s",".">>

\* line 952: 'Review page structure for unnecessary code, inline styles/scripts, or large comment blocks. Ensure there is substantial textual content relevant to the page topic.'
Rec_LowTextToHTMLRatio ==
    <<"R","e","v","i","e","w"," ","p","a","g","e"," ","s","t","r","u","c","t","u",
      "r","e"," ","f","o","r"," ","u","n","n","e","c","e","s","s","a","r","y"," ",
      "c","o","d","e",","," ","i","n","l","i","n","e"," ","s","t","y","l","e","s",
      "/","s","c","r","i","p","t","s",","," ","o","r"," ","l","a","r","g","e"," ",
      "c","o","m","m","e","n","t"," ","b","l","o","c","k","s","."," ","E","n","s",
      "u","r","e"," ","t","h","e","r","e"," ","i","s"," ","s","u","b","s","t","a",
      "n","t","i","a","l"," ","t","e","x","t","u","a","l"," ","c","o","n","t","e",
      "n","t"," ","r","e","l","e","v","a","n","t"," ","t","o"," ","t","h","e"," ",
      "p","a","g","e"," ","t","o","p","i","c",".">>

\* line 962: 'Significantly simplify sentence structure, vocabulary, and use shorter paragraphs. Aim for clarity and conciseness.'
Rec_VeryLowReadabilityScore ==
    <<"S","i","g","n","i","f","i","c","a","n","t","l","y"," ","s","i","m","p","l",
      "i","f","y"," ","s","e","n","t","e","n","c","e"," ","s","t","r","u","c","t",
      "u","r","e",","," ","v","o","c","a","b","u","l","a","r","y",","," ","a","n",
      "d"," ","u","s","e"," ","s","h","o","r","t","e","r"," ","p","a","r","a","g",
      "r","a","p","h","s","."," ","A","i","m"," ","f","o","r"," ","c","l","a","r",
      "i","t","y"," ","a","n","d"," ","c","o","n","c","i","s","e","n","e","s","s",
      ".">>

\* line 966: 'Consider simplifying complex language and sentence structures to make the content accessible to a broader audience.'
Rec_LowToModerateReadabilityScore ==
    <<"C","o","n","s","i","d","e","r"," ","s","i","m","p","l","i","f","y","i","n",
      "g"," ","c","o","m","p","l","e","x"," ","l","a","n","g","u","a","g","e"," ",
      "a","n","d"," ","s","e","n","t","e","n","c","e"," ","s","t","r","u","c","t",
      "u","r","e","s"," ","t","o"," ","m","a","k","e"," ","t","h","e"," ","c","o",
      "n","t","e","n","t"," ","a","c","c","e","s","s","i","b","l","e"," ","t","o",
      " ","a"," ","b","r","o","a","d","e","r"," ","a","u","d","i","e","n","c","e",
      ".">>

\* line 998: 'If images are relevant to your content, consider adding them with appropriate alt text.'
Rec_NoImagesFoundOnPage ==
    <<"I","f"," ","i","m","a","g","e","s"," ","a","r","e"," ","r","e","l","e","v",
      "a","n","t"," ","t","o"," ","y","o","u","r"," ","c","o","n","t","e","n","t",
      ","," ","c","o","n","s","i","d","e","r"," ","a","d","d","i","n","g"," ","t",
      "h","e","m"," ","w","i","t","h"," ","a","p","p","r","o","p","r","i","a","t",
      "e"," ","a","l","t"," ","t","e","x","t",".">>

\* line 1009: Add a descriptive 'alt' attribute to all meaningful images. For purely decorative images, use an empty alt attribute (alt="").
Rec_MissingAltAttribute ==
    <<"A","d","d"," ","a"," ","d","e","s","c","r","i","p","t","i","v","e"," ","'",
      "a","l","t","'"," ","a","t","t","r","i","b","u","t","e"," ","t","o"," ","a",
      "l","l"," ","m","e","a","n","i","n","g","f","u","l"," ","i","m","a","g","e",
      "s","."," ","F","o","r"," ","p","u","r","e","l","y"," ","d","e","c","o","r",
      "a","t","i","v","e"," ","i","m","a","g","e","s",","," ","u","s","e"," ","a",
      "n"," ","e","m","p","t","y"," ","a","l","t"," ","a","t","t","r","i","b","u",
      "t","e"," ","(","a","l","t","=","\"","\"",")",".">>

\* line 1023: If the image is informative, provide descriptive alt text. If it's purely decorative and conveys no information, alt="" is appropriate; consider also adding role='presentation' for clarity.
Rec_EmptyAltTextForPotentiallyNonDecorativeImage ==
    <<"I","f"," ","t","h","e"," ","i","m","a","g","e"," ","i","s"," ","i","n","f",
      "o","r","m","a","t","i","v","e",","," ","p","r","o","v","i","d","e"," ","d",
      "e","s","c","r","i","p","t","i","v","e"," ","a","l","t"," ","t","e","x","t",
      "."," ","I","f"," ","i","t","'","s"," ","p","u","r","e","l","y"," ","d","e",
      "c","o","r","a","t","i","v","e"," ","a","n","d"," ","c","o","n","v","e","y",
      "s"," ","n","o"," ","i","n","f","o","r","m","a","t","i","o","n",","," ","a",
      "l","t","=","\"","\""," ","i","s"," ","a","p","p","r","o","p","r","i","a",
      "t","e",";"," ","c","o","n","s","i","d","e","r"," ","a","l","s","o"," ","a",
      "d","d","i","n","g"," ","r","o","l","e","=","'","p","r","e","s","e","n","t",
      "a","t","i","o","n","'"," ","f","o","r"," ","c","l","a","r","i","t","y",".">>

\* line 1028: "Keep alt text concise yet descriptive, ideally under 125 characters, focusing on the image's purpose and content."
Rec_AltTextTooLong ==
    <<"K","e","e","p"," ","a","l","t"," ","t","e","x","t"," ","c","o","n","c","i",
      "s","e"," ","y","e","t"," ","d","e","s","c","r","i","p","t","i","v","e",",",
      " ","i","d","e","a","l","l","y"," ","u","n","d","e","r"," ","1","2","5"," ",
      "c","h","a","r","a","c","t","e","r","s",","," ","f","o","c","u","s","i","n",
      "g"," ","o","n"," ","t","h","e"," ","i","m","a","g","e","'","s"," ","p","u",
      "r","p","o","s","e"," ","a","n","d"," ","c","o","n","t","e","n","t",".">>

\* line 1063: 'Add relevant internal links to improve site navigation, distribute link equity, and help search engines discover other content on your site.'
Rec_NoInternalLinksFound ==
    <<"A","d","d"," ","r","e","l","e","v","a","n","t"," ","i","n","t","e","r","n",
      "a","l"," ","l","i","n","k","s"," ","t","o"," ","i","m","p","r","o","v","e",
      " ","s","i","t","e"," ","n","a","v","i","g","a","t","i","o","n",","," ","d",
      "i","s","t","r","i","b","u","t","e"," ","l","i","n","k"," ","e","q","u","i",
      "t","y",","," ","a","n","d"," ","h","e","l","p"," ","s","e","a","r","c","h",
      " ","e","n","g","i","n","e","s"," ","d","i","s","c","o","v","e","r"," ","o",
      "t","h","e","r"," ","c","o","n","t","e","n","t"," ","o","n"," ","y","o","u",
      "r"," ","s","i","t","e",".">>

\* line 1068: "Review internal nofollow links. Generally, internal links should not be 'nofollow' unless for specific reasons (e.g., links to login pages, user-generated content sections not endorsed)."
Rec_InternalNofollowLinks ==
    <<"R","e","v","i","e","w"," ","i","n","t","e","r","n","a","l"," ","n","o","f",
      "o","l","l","o","w"," ","l","i","n","k","s","."," ","G","e","n","e","r","a",
      "l","l","y",","," ","i","n","t","e","r","n","a","l"," ","l","i","n","k","s",
      " ","s","h","o","u","l","d"," ","n","o","t"," ","b","e"," ","'","n","o","f",
      "o","l","l","o","w","'"," ","u","n","l","e","s","s"," ","f","o","r"," ","s",
      "p","e","c","i","f","i","c"," ","r","e","a","s","o","n","s"," ","(","e",".",
      "g",".",","," ","l","i","n","k","s"," ","t","o"," ","l","o","g","i","n"," ",
      "p","a","g","e","s",","," ","u","s","e","r","-","g","e","n","e","r","a","t",
      "e","d"," ","c","o","n","t","e","n","t"," ","s","e","c","t","i","o","n","s",
      " ","n","o","t"," ","e","n","d","o","r","s","e","d",")",".">>

\* line 1075: "Ensure all external links are high-quality, relevant, and add value to your users. Consider if 'nofollow' or 'sponsored' attributes are appropriate for some external links."
Rec_HighRatioOfExternalLinks ==
    <<"E","n","s","u","r","e"," ","a","l","l"," ","e","x","t","e","r","n","a","l",
      " ","l","i","n","k","s"," ","a","r","e"," ","h","i","g","h","-","q","u","a",
      "l","i","t","y",","," ","r","e","l","e","v","a","n","t",","," ","a","n","d",
      " ","a","d","d"," ","v","a","l","u","e"," ","t","o"," ","y","o","u","r"," ",
      "u","s","e","r","s","."," ","C","o","n","s","i","d","e","r"," ","i","f"," ",
      "'","n","o","f","o","l","l","o","w","'"," ","o","r"," ","'","s","p","o","n",
      "s","o","r","e","d","'"," ","a","t","t","r","i","b","u","t","e","s"," ","a",
      "r","e"," ","a","p","p","r","o","p","r","i","a","t","e"," ","f","o","r"," ",
      "s","o","m","e"," ","e","x","t","e","r","n","a","l"," ","l","i","n","k","s",
      ".">>

\* line 1097: 'Implement all essential Open Graph tags (og:title, og:type, og:image, og:url) with appropriate content for optimal social sharing.'
Rec_MissingEssentialOpenGraphTags ==
    <<"I","m","p","l","e","m","e","n","t"," ","a","l","l"," ","e","s","s","e","n",
      "t","i","a","l"," ","O","p","e","n"," ","G","r","a","p","h"," ","t","a","g",
      "s"," ","(","o","g",":","t","i","t","l","e",","," ","o","g",":","t","y","p",
      "e",","," ","o","g",":","i","m","a","g","e",","," ","o","g",":","u","r","l",
      ")"," ","w","i","t","h"," ","a","p","p","r","o","p","r","i","a","t","e"," ",
      "c","o","n","t","e","n","t"," ","f","o","r"," ","o","p","t","i","m","a","l",
      " ","s","o","c","i","a","l"," ","s","h","a","r","i","n","g",".">>

\* line 1101: 'Add an og:description tag to control the summary text when your page is shared on social media platforms.'
Rec_MissingRecommendedOpenGraphDescription ==
    <<"A","d","d"," ","a","n"," ","o","g",":","d","e","s","c","r","i","p","t","i",
      "o","n"," ","t","a","g"," ","t","o"," ","c","o","n","t","r","o","l"," ","t",
      "h","e"," ","s","u","m","m","a","r","y"," ","t","e","x","t"," ","w","h","e",
      "n"," ","y","o","u","r"," ","p","a","g","e"," ","i","s"," ","s","h","a","r",
      "e","d"," ","o","n"," ","s","o","c","i","a","l"," ","m","e","d","i","a"," ",
      "p","l","a","t","f","o","r","m","s",".">>

\* line 1112: "Specify a Twitter Card type using the 'twitter:card' meta tag for optimal display on Twitter."
Rec_MissingTwitterCardType ==
    <<"S","p","e","c","i","f","y"," ","a"," ","T","w","i","t","t","e","r"," ","C",
      "a","r","d"," ","t","y","p","e"," ","u","s","i","n","g"," ","t","h","e"," ",
      "'","t","w","i","t","t","e","r",":","c","a","r","d","'"," ","m","e","t","a",
      " ","t","a","g"," ","f","o","r"," ","o","p","t","i","m","a","l"," ","d","i",
      "s","p","l","a","y"," ","o","n"," ","T","w","i","t","t","e","r",".">>

\* line 1117: 'Ensure your Twitter Card includes twitter:title, twitter:description (recommended), and twitter:image for optimal display and engagement on Twitter.'
Rec_PotentiallyIncompleteTwitterCardTags ==
    <<"E","n","s","u","r","e"," ","y","o","u","r"," ","T","w","i","t","t","e","r",
      " ","C","a","r","d"," ","i","n","c","l","u","d","e","s"," ","t","w","i","t",
      "t","e","r",":","t","i","t","l","e",","," ","t","w","i","t","t","e","r",":",
      "d","e","s","c","r","i","p","t","i","o","n"," ","(","r","e","c","o","m","m",
      "e","n","d","e","d",")",","," ","a","n","d"," ","t","w","i","t","t","e","r",
      ":","i","m","a","g","e"," ","f","o","r"," ","o","p","t","i","m","a","l"," ",
      "d","i","s","p","l","a","y"," ","a","n","d"," ","e","n","g","a","g","e","m",
      "e","n","t"," ","o","n"," ","T","w","i","t","t","e","r",".">>

\* line 1124: 'Consider adding Twitter Card tags for optimized display and engagement when your content is shared on Twitter.'
Rec_NoTwitterCardTagsFound ==
    <<"C","o","n","s","i","d","e","r"," ","a","d","d","i","n","g"," ","T","w","i",
      "t","t","e","r"," ","C","a","r","d"," ","t","a","g","s"," ","f","o","r"," ",
      "o","p","t","i","m","i","z","e","d"," ","d","i","s","p","l","a","y"," ","a",
      "n","d"," ","e","n","g","a","g","e","m","e","n","t"," ","w","h","e","n"," ",
      "y","o","u","r"," ","c","o","n","t","e","n","t"," ","i","s"," ","s","h","a",
      "r","e","d"," ","o","n"," ","T","w","i","t","t","e","r",".">>

\* line 1178: 'Consider adding structured data (Schema.org markup, typically via JSON-LD) to help search engines understand your content better and potentially enable rich results in SERPs.'
Rec_NoCommonStructuredDataDetected ==
    <<"C","o","n","s","i","d","e","r"," ","a","d","d","i","n","g"," ","s","t","r",
      "u","c","t","u","r","e","d"," ","d","a","t","a"," ","(","S","c","h","e","m",
      "a",".","o","r","g"," ","m","a","r","k","u","p",","," ","t","y","p","i","c",
      "a","l","l","y"," ","v","i","a"," ","J","S","O","N","-","L","D",")"," ","t",
      "o"," ","h","e","l","p"," ","s","e","a","r","c","h"," ","e","n","g","i","n",
      "e","s"," ","u","n","d","e","r","s","t","a","n","d"," ","y","o","u","r"," ",
      "c","o","n","t","e","n","t"," ","b","e","t","t","e","r"," ","a","n","d"," ",
      "p","o","t","e","n","t","i","a","l","l","y"," ","e","n","a","b","l","e"," ",
      "r","i","c","h"," ","r","e","s","u","l","t","s"," ","i","n"," ","S","E","R",
      "P","s",".">>

\* line 1183: 'Review the detected JSON-LD data for correctness, completeness, and opportunities for richer data representation according to Schema.org guidelines.'
Rec_JSONLDDataFound ==
    <<"R","e","v","i","e","w"," ","t","h","e"," ","d","e","t","e","c","t","e","d",
      " ","J","S","O","N","-","L","D"," ","d","a","t","a"," ","f","o","r"," ","c",
      "o","r","r","e","c","t","n","e","s","s",","," ","c","o","m","p","l","e","t",
      "e","n","e","s","s",","," ","a","n","d"," ","o","p","p","o","r","t","u","n",
      "i","t","i","e","s"," ","f","o","r"," ","r","i","c","h","e","r"," ","d","a",
      "t","a"," ","r","e","p","r","e","s","e","n","t","a","t","i","o","n"," ","a",
      "c","c","o","r","d","i","n","g"," ","t","o"," ","S","c","h","e","m","a",".",
      "o","r","g"," ","g","u","i","d","e","l","i","n","e","s",".">>

\* line 1187: 'Microdata is present. While still supported, JSON-LD is now more commonly recommended by Google for new implementations of Schema.org markup.'
Rec_MicrodataFound ==
    <<"M","i","c","r","o","d","a","t","a"," ","i","s"," ","p","r","e","s","e","n",
      "t","."," ","W","h","i","l","e"," ","s","t","i","l","l"," ","s","u","p","p",
      "o","r","t","e","d",","," ","J","S","O","N","-","L","D"," ","i","s"," ","n",
      "o","w"," ","m","o","r","e"," ","c","o","m","m","o","n","l","y"," ","r","e",
      "c","o","m","m","e","n","d","e","d"," ","b","y"," ","G","o","o","g","l","e",
      " ","f","o","r"," ","n","e","w"," ","i","m","p","l","e","m","e","n","t","a",
      "t","i","o","n","s"," ","o","f"," ","S","c","h","e","m","a",".","o","r","g",
      " ","m","a","r","k","u","p",".">>

\* line 1191: 'RDFa is present. Similar to Microdata, JSON-LD is often the preferred method for implementing Schema.org due to ease of management.'
Rec_RdfaDataFound ==
    <<"R","D","F","a"," ","i","s"," ","p","r","e","s","e","n","t","."," ","S","i",
      "m","i","l","a","r"," ","t","o"," ","M","i","c","r","o","d","a","t","a",",",
      " ","J","S","O","N","-","L","D"," ","i","s"," ","o","f","t","e","n"," ","t",
      "h","e"," ","p","r","e","f","e","r","r","e","d"," ","m","e","t","h","o","d",
      " ","f","o","r"," ","i","m","p","l","e","m","e","n","t","i","n","g"," ","S",
      "c","h","e","m","a",".","o","r","g"," ","d","u","e"," ","t","o"," ","e","a",
      "s","e"," ","o","f"," ","m","a","n","a","g","e","m","e","n","t",".">>

(***************************************************************************)
(* Seokar: findings, health score, recommendations                         *)
(***************************************************************************)

\* Python None where a dict or a number is expected.
NoneRec == [none |-> TRUE]
NoneInt == -1

\* SEOResultLevel
INFO == 0
GOOD == 1
WARNING == 2
ERROR == 3
CRITICAL == 4
SEOResultLevel == {INFO, GOOD, WARNING, ERROR, CRITICAL}

\* SEOResult(level, message, element_type, details, recommendation).  A message is
\* its text with the interpolated numbers left out; details holds the numbers that
\* the message and the details text interpolate (texts they interpolate are left
\* out); a recommendation is its text, character by character, or NoneStr.
SEOResult(level, message, element_type, details, recommendation) ==
    [level |-> level, message |-> message, element_type |-> element_type,
     details |-> details, recommendation |-> recommendation]

\* Seokar._add_result: the list with one more result at its end.
\* The same with the result put at the front of the list.
_add_result_at_front(results, level, message, element_type, details, recommendation) ==
    <<SEOResult(level, message, element_type, details, recommendation)>> \o results

_add_result(results, level, message, element_type, details, recommendation) ==
    Append(results, SEOResult(level, message, element_type, details, recommendation))

\* One iteration of the loop of _calculate_seo_health_score.
\* The same with an ERROR result taken for a WARNING.
Tally_error_as_warning(acc, level) ==
    IF level = CRITICAL
    THEN [acc EXCEPT !.score = @ - 10, !.critical_issues = @ + 1]
    ELSE IF level = ERROR \/ level = WARNING
    THEN [acc EXCEPT !.score = @ - 2, !.warning_issues = @ + 1]
    ELSE acc

Tally(acc, level) ==
    IF level = CRITICAL
    THEN [acc EXCEPT !.score = @ - 10, !.critical_issues = @ + 1]
    ELSE IF level = ERROR
    THEN [acc EXCEPT !.score = @ - 5, !.error_issues = @ + 1]
    ELSE IF level = WARNING
    THEN [acc EXCEPT !.score = @ - 2, !.warning_issues = @ + 1]
    ELSE acc

RECURSIVE ScoreLoop(_, _, _)
ScoreLoop(results, i, acc) ==
    IF i > Len(results) THEN acc
    ELSE ScoreLoop(results, i + 1, Tally(acc, results[i].level))

Max(a, b) == IF a >= b THEN a ELSE b

\* The dict that _calculate_seo_health_score returns, from the loop's counters.
\* The same with the score left below 0.
HealthOf_unfloored(acc) ==
    [score |-> acc.score,
     total_issues_found |-> acc.critical_issues + acc.error_issues + acc.warning_issues,
     critical_issues_count |-> acc.critical_issues,
     error_issues_count |-> acc.error_issues,
     warning_issues_count |-> acc.warning_issues]

HealthOf(acc) ==
    [score |-> Max(0, acc.score),
     total_issues_found |-> acc.critical_issues + acc.error_issues + acc.warning_issues,
     critical_issues_count |-> acc.critical_issues,
     error_issues_count |-> acc.error_issues,
     warning_issues_count |-> acc.warning_issues]

_calculate_seo_health_score(results) ==
    HealthOf(ScoreLoop(results, 1,
        [score |-> 100, critical_issues |-> 0, error_issues |-> 0, warning_issues |-> 0]))

\* Code points 32..126 in order: the order Python compares str by.  Code point 96
\* (grave accent), which no text of the module holds, is written "GRAVE".
AsciiPrintable ==
    <<" ","!","\"","#","$","%","&","'","(",")","*","+",",","-",".","/","0","1",
      "2","3","4","5","6","7","8","9",":",";","<","=",">","?","@","A","B","C","D",
      "E","F","G","H","I","J","K","L","M","N","O","P","Q","R","S","T","U","V","W",
      "X","Y","Z","[","\\","]","^","_","GRAVE","a","b","c","d","e","f","g","h","i",
      "j","k","l","m","n","o","p","q","r","s","t","u","v","w","x","y","z","{","|",
      "}","~">>

ord(c) == 31 + (CHOOSE i \in 1..Len(AsciiPrintable) : AsciiPrintable[i] = c)

\* str.__lt__ from position i on, the strings being equal before it.
RECURSIVE StrLessFrom(_, _, _)
StrLessFrom(a, b, i) ==
    IF i > Len(a) THEN i <= Len(b)
    ELSE IF i > Len(b) THEN FALSE
    ELSE IF a[i] = b[i] THEN StrLessFrom(a, b, i + 1)
    ELSE ord(a[i]) < ord(b[i])

StrLess(a, b) == StrLessFrom(a, b, 1)

\* sorted(list(S)) for a set S of str.
RECURSIVE sorted(_)
sorted(S) ==
    IF S = {} THEN <<>>
    ELSE <<CHOOSE x \in S : \A y \in S \ {x} : StrLess(x, y)>>
         \o sorted(S \ {CHOOSE x \in S : \A y \in S \ {x} : StrLess(x, y)})

\* The set that the loop of _get_all_actionable_recommendations builds.
\* The same without the test of the level.
unique_recommendations_any_level(results) ==
    {results[i].recommendation :
        i \in {j \in DOMAIN results : Truthy(results[j].recommendation)}}

unique_recommendations(results) ==
    {results[i].recommendation :
        i \in {j \in DOMAIN results :
                 /\ Truthy(results[j].recommendation)
                 /\ results[j].level >= WARNING}}

_get_all_actionable_recommendations(results) == sorted(unique_recommendations(results))

(***************************************************************************)
(* Seokar: the document and its getters                                    *)
(*                                                                         *)
(* A document is the parsed tree as the getters read it: for every         *)
(* soup.find the attribute or text of the element found, for every         *)
(* soup.find_all the list of the elements found.  A text that the code     *)
(* only measures is its length.                                            *)
(***************************************************************************)

OPTIMAL_TITLE_LENGTH == <<30, 60>>
OPTIMAL_DESCRIPTION_LENGTH == <<70, 160>>

\* x in list
In(x, list) == \E i \in DOMAIN list : list[i] = x

\* p in s, for str
Contains(s, p) == FindSub(s, p) # 0

\* attr.strip(), or None when the attribute is missing, empty or blank: the
\* pattern `tag.get(a, '').strip() if tag and tag.get(a) else None`, then
\* `content if content else None`.
StrippedOrNone(attr) ==
    IF Truthy(attr) /\ Strip(attr) # <<>> THEN Strip(attr) ELSE NoneStr

\* doc.title: the length of title_tag.get_text(strip=True), NoneInt without <title>.
get_title(doc) == doc.title

\* doc.meta_description: the length of the description's content.strip(), NoneInt
\* without the element or its content.
get_meta_description(doc) ==
    IF doc.meta_description = 0 THEN NoneInt ELSE doc.meta_description

\* [d.strip().lower() for d in parts if d.strip()]
RECURSIVE Directives(_)
Directives(parts) ==
    IF parts = <<>> THEN <<>>
    ELSE IF Strip(Head(parts)) # <<>>
    THEN <<Lower(Strip(Head(parts)))>> \o Directives(Tail(parts))
    ELSE Directives(Tail(parts))

\* doc.meta_robots: the content of the robots meta element, NoneStr without it.
get_meta_robots(doc) ==
    IF Truthy(doc.meta_robots) THEN Directives(Split(doc.meta_robots, ",")) ELSE <<>>

\* doc.canonical_href: the href of <link rel="canonical">, NoneStr without it.
get_canonical_url(doc, url) ==
    _make_absolute_url(doc.base_href, url,
        IF Truthy(doc.canonical_href) THEN Strip(doc.canonical_href) ELSE NoneStr)

\* doc.viewport: the content of the viewport meta element, NoneStr without it.
get_viewport(doc) == StrippedOrNone(doc.viewport)

CharsetEquals == <<"c","h","a","r","s","e","t","=">>

\* Where re.search(r'charset=([^;]+)', content, re.I) can match.
CharsetMatches(content) ==
    {i \in 1..(Len(content) - Len(CharsetEquals)) :
        /\ Lower(SubSeq(content, i, i + Len(CharsetEquals) - 1)) = CharsetEquals
        /\ content[i + Len(CharsetEquals)] # ";"}

\* content[i:] up to the first ';'
UpToSemicolon(content, i) ==
    IF FindAnyFrom(content, {";"}, i) = 0 THEN From(content, i)
    ELSE SubSeq(content, i, FindAnyFrom(content, {";"}, i) - 1)

\* match.group(1).strip().lower() of the first match, None without a match.
CharsetOfContentType(content) ==
    IF CharsetMatches(content) = {} THEN NoneStr
    ELSE Lower(Strip(UpToSemicolon(content,
             (CHOOSE i \in CharsetMatches(content) :
                  \A j \in CharsetMatches(content) : i <= j) + Len(CharsetEquals))))

\* doc.meta_charset: the charset attribute of the first <meta charset>, NoneStr
\* without one; doc.content_type: the content of the http-equiv Content-Type meta
\* element, NoneStr without it.
get_charset(doc) ==
    IF Truthy(doc.meta_charset) THEN Lower(Strip(doc.meta_charset))
    ELSE IF Truthy(doc.content_type) THEN CharsetOfContentType(doc.content_type)
    ELSE NoneStr

\* doc.html_lang: the lang attribute of <html>, NoneStr without it.
get_html_lang(doc) == StrippedOrNone(doc.html_lang)

FaviconIco == <<"/","f","a","v","i","c","o","n",".","i","c","o">>

\* The favicon when the link element gave none.
DefaultFavicon(url) ==
    IF Truthy(url) /\ _is_valid_url(url) THEN urljoin(url, FaviconIco) ELSE NoneStr

\* doc.favicon_href: the href of the first icon link element in the order of
\* rels_to_check, NoneStr without one.
get_favicon_url(doc, url) ==
    IF /\ Truthy(doc.favicon_href)
       /\ Strip(doc.favicon_href) # <<>>
       /\ Truthy(_make_absolute_url(doc.base_href, url, Strip(doc.favicon_href)))
    THEN _make_absolute_url(doc.base_href, url, Strip(doc.favicon_href))
    ELSE DefaultFavicon(url)

(***************************************************************************)
(* Seokar._analyze_basic_seo                                               *)
(***************************************************************************)

\* `not title` for a text known by its length
NoText(length) == length = NoneInt \/ length = 0

\* The title checks of _analyze_basic_seo.
\* The same with the two bounds themselves outside the optimal range.
TitleResults_bounds_excluded(results, title) ==
    IF NoText(title)
    THEN _add_result(results, CRITICAL, "Missing Title Tag", "Title", <<>>,
                     Rec_MissingTitleTag)
    ELSE IF title <= OPTIMAL_TITLE_LENGTH[1]
    THEN _add_result(results, WARNING, "Title Too Short", "Title", <<title>>,
                     Rec_TitleTooShort)
    ELSE IF title >= OPTIMAL_TITLE_LENGTH[2]
    THEN _add_result(results, WARNING, "Title Too Long", "Title", <<title>>,
                     Rec_TitleTooLong)
    ELSE _add_result(results, GOOD, "Optimal Title Length", "Title", <<title>>, NoneStr)

TitleResults(results, title) ==
    IF NoText(title)
    THEN _add_result(results, CRITICAL, "Missing Title Tag", "Title", <<>>,
                     Rec_MissingTitleTag)
    ELSE IF title < OPTIMAL_TITLE_LENGTH[1]
    THEN _add_result(results, WARNING, "Title Too Short", "Title", <<title>>,
                     Rec_TitleTooShort)
    ELSE IF title > OPTIMAL_TITLE_LENGTH[2]
    THEN _add_result(results, WARNING, "Title Too Long", "Title", <<title>>,
                     Rec_TitleTooLong)
    ELSE _add_result(results, GOOD, "Optimal Title Length", "Title", <<title>>, NoneStr)

DescriptionResults(results, description) ==
    IF NoText(description)
    THEN _add_result(results, WARNING, "Missing Meta Description", "Meta Description",
                     <<>>, Rec_MissingMetaDescription)
    ELSE IF description < OPTIMAL_DESCRIPTION_LENGTH[1]
    THEN _add_result(results, WARNING, "Meta Description Too Short",
                     "Meta Description", <<description>>, Rec_MetaDescriptionTooShort)
    ELSE IF description > OPTIMAL_DESCRIPTION_LENGTH[2]
    THEN _add_result(results, WARNING, "Meta Description Too Long",
                     "Meta Description", <<description>>, Rec_MetaDescriptionTooLong)
    ELSE _add_result(results, GOOD, "Optimal Meta Description Length",
                     "Meta Description", <<description>>, NoneStr)

NoIndex == <<"n","o","i","n","d","e","x">>
NoFollow == <<"n","o","f","o","l","l","o","w">>

RobotsNotSpecified(results, robots) ==
    IF robots = <<>>
    THEN _add_result(results, INFO, "Meta Robots Not Specified", "Meta Robots", <<>>,
                     Rec_MetaRobotsNotSpecified)
    ELSE results

RobotsNoIndex(results, robots) ==
    IF In(NoIndex, robots)
    THEN _add_result(results, CRITICAL, "Page is NoIndexed", "Meta Robots", <<>>,
                     Rec_PageIsNoindexed)
    ELSE results

RobotsNoFollow(results, robots) ==
    IF In(NoFollow, robots)
    THEN _add_result(results, WARNING, "Page is NoFollow", "Meta Robots", <<>>,
                     Rec_PageIsNofollow)
    ELSE results

RobotsResults(results, robots) ==
    RobotsNoFollow(RobotsNoIndex(RobotsNotSpecified(results, robots), robots), robots)

CanonicalResults(results, canonical_url, url) ==
    IF ~Truthy(canonical_url)
    THEN _add_result(results, WARNING, "Missing Canonical URL", "Canonical URL", <<>>,
                     Rec_MissingCanonicalURL)
    ELSE IF Truthy(url) /\ _is_valid_url(url)
    THEN IF RStripSlash(url) # RStripSlash(canonical_url)
         THEN _add_result(results, WARNING, "Canonical URL Mismatch", "Canonical URL",
                          <<>>, Rec_CanonicalURLMismatch)
         ELSE _add_result(results, GOOD, "Canonical URL Matches Page URL",
                          "Canonical URL", <<>>, NoneStr)
    ELSE _add_result(results, INFO, "Canonical URL Present (No Page URL for Comparison)",
                     "Canonical URL", <<>>, NoneStr)

WidthDeviceWidth == <<"w","i","d","t","h","=","d","e","v","i","c","e","-","w","i","d","t","h">>
InitialScale1 == <<"i","n","i","t","i","a","l","-","s","c","a","l","e","=","1">>

ViewportResults(results, viewport) ==
    IF ~Truthy(viewport)
    THEN _add_result(results, ERROR, "Missing Viewport Meta Tag", "Viewport", <<>>,
                     Rec_MissingViewportMetaTag)
    ELSE IF ~Contains(viewport, WidthDeviceWidth) \/ ~Contains(viewport, InitialScale1)
    THEN _add_result(results, WARNING, "Suboptimal Viewport Configuration", "Viewport",
                     <<>>, Rec_SuboptimalViewportConfiguration)
    ELSE _add_result(results, GOOD, "Viewport Configured for Mobile", "Viewport", <<>>,
                     NoneStr)

Utf8 == <<"u","t","f","-","8">>

CharsetResults(results, charset) ==
    IF ~Truthy(charset)
    THEN _add_result(results, ERROR, "Charset Not Declared", "Charset", <<>>,
                     Rec_CharsetNotDeclared)
    ELSE IF Lower(charset) # Utf8
    THEN _add_result(results, WARNING, "Non-UTF-8 Charset Used", "Charset", <<>>,
                     Rec_NonUTF8CharsetUsed)
    ELSE _add_result(results, GOOD, "UTF-8 Charset Declared", "Charset", <<>>, NoneStr)

HtmlLangResults(results, html_lang) ==
    IF ~Truthy(html_lang)
    THEN _add_result(results, WARNING, "HTML Language Not Declared", "HTML Language",
                     <<>>, Rec_HTMLLanguageNotDeclared)
    ELSE _add_result(results, GOOD, "HTML Language Declared", "HTML Language", <<>>,
                     NoneStr)

FaviconResults(results, favicon) ==
    IF ~Truthy(favicon)
    THEN _add_result(results, INFO, "Favicon Not Detected or Specified", "Favicon",
                     <<>>, Rec_FaviconNotDetectedOrSpecified)
    ELSE _add_result(results, GOOD, "Favicon Link/Default Resolved", "Favicon", <<>>,
                     NoneStr)

\* self._results after _analyze_basic_seo
BasicSeoResults(results, doc, url) ==
    FaviconResults(
      HtmlLangResults(
        CharsetResults(
          ViewportResults(
            CanonicalResults(
              RobotsResults(
                DescriptionResults(
                  TitleResults(results, get_title(doc)),
                  get_meta_description(doc)),
                get_meta_robots(doc)),
              get_canonical_url(doc, url), url),
            get_viewport(doc)),
          get_charset(doc)),
        get_html_lang(doc)),
      get_favicon_url(doc, url))

\* len(text or "") for a text known by its length
LenOrZero(length) == IF length = NoneInt THEN 0 ELSE length

\* The dict that _analyze_basic_seo returns.
BasicSeoReport(doc, url) ==
    [title |-> get_title(doc),
     title_length |-> LenOrZero(get_title(doc)),
     meta_description |-> get_meta_description(doc),
     meta_description_length |-> LenOrZero(get_meta_description(doc)),
     meta_robots |-> get_meta_robots(doc),
     canonical_url |-> get_canonical_url(doc, url),
     viewport |-> get_viewport(doc),
     charset |-> get_charset(doc),
     html_lang |-> get_html_lang(doc),
     favicon_url |-> get_favicon_url(doc, url)]

(***************************************************************************)
(* Seokar._analyze_headings_structure                                      *)
(***************************************************************************)

MAX_H1_TAGS == 1
MAX_HEADING_LENGTH == 70
MAX_HEADING_WORDS == 12

\* The levels h1..h6.
HeadingLevels == 1..6

\* doc.headings: the heading elements in document order, each with its level, the
\* length of its get_text(strip=True) and the number of words of that text.
\* The texts of one level that are not empty, in document order.
RECURSIVE HeadingTexts(_, _)
HeadingTexts(headings, level) ==
    IF headings = <<>> THEN <<>>
    ELSE IF Head(headings).level = level /\ Head(headings).length > 0
    THEN <<Head(headings)>> \o HeadingTexts(Tail(headings), level)
    ELSE HeadingTexts(Tail(headings), level)

\* The dict of get_all_headings as a function of the level; the dict has a key for
\* the levels with a text, in the order h1..h6.
get_all_headings(doc) == [level \in HeadingLevels |-> HeadingTexts(doc.headings, level)]

\* all_headings.keys(), as levels
HeadingKeys(all_headings) == {level \in HeadingLevels : all_headings[level] # <<>>}

H1Results(results, h1_count) ==
    IF h1_count = 0
    THEN _add_result(results, ERROR, "Missing H1 Tag", "H1 Tag", <<>>, Rec_MissingH1Tag)
    ELSE IF h1_count > MAX_H1_TAGS
    THEN _add_result(results, WARNING, "Multiple H1 Tags ({h1_count})", "H1 Tag",
                     <<h1_count>>, Rec_MultipleH1Tags)
    ELSE _add_result(results, GOOD, "Single H1 Tag Present", "H1 Tag", <<>>, NoneStr)

\* present_levels[0]
FirstLevel(present) == CHOOSE l \in present : \A k \in present : l <= k

StartResults(results, present) ==
    IF present # {} /\ FirstLevel(present) # 1
    THEN _add_result(results, WARNING, "Heading Structure Starts Incorrectly",
                     "Headings Hierarchy", <<FirstLevel(present)>>,
                     Rec_HeadingStructureStartsIncorrectly)
    ELSE results

\* The loop over the pairs of present_levels: prev is the present level before
\* level (0 when there is none).
RECURSIVE SkippedResults(_, _, _, _)
SkippedResults(results, present, prev, level) ==
    IF level > 6 THEN results
    ELSE IF level \notin present THEN SkippedResults(results, present, prev, level + 1)
    ELSE IF prev # 0 /\ level - prev > 1
    THEN SkippedResults(
             _add_result(results, WARNING, "Skipped Heading Level",
                         "Headings Hierarchy", <<prev + 1, prev, level>>,
                         Rec_SkippedHeadingLevel),
             present, level, level + 1)
    ELSE SkippedResults(results, present, level, level + 1)

\* hierarchy_is_logical after both checks
\* The same with the loop over the pairs leaving the flag alone.
HierarchyIsLogical_start_only(present) ==
    ~(present # {} /\ FirstLevel(present) # 1)

HierarchyIsLogical(present) ==
    /\ ~(present # {} /\ FirstLevel(present) # 1)
    /\ \A l \in present : l = FirstLevel(present) \/ (l - 1) \in present

LogicalResults(results, present) ==
    IF HierarchyIsLogical(present) /\ present # {}
    THEN _add_result(results, GOOD, "Logical Heading Hierarchy", "Headings Hierarchy",
                     <<>>, NoneStr)
    ELSE results

TooLongMessage(level) ==
    CASE level = 1 -> "H1 Too Long" [] level = 2 -> "H2 Too Long" [] level = 3 -> "H3 Too Long"

TooWordyMessage(level) ==
    CASE level = 1 -> "H1 Too Wordy" [] level = 2 -> "H2 Too Wordy"
      [] level = 3 -> "H3 Too Wordy"

ContentElement(level) ==
    CASE level = 1 -> "H1 Content" [] level = 2 -> "H2 Content" [] level = 3 -> "H3 Content"

TooLongRec(level) ==
    CASE level = 1 -> Rec_H1TooLong [] level = 2 -> Rec_H2TooLong [] level = 3 -> Rec_H3TooLong

TooWordyRec(level) ==
    CASE level = 1 -> Rec_H1TooWordy [] level = 2 -> Rec_H2TooWordy
      [] level = 3 -> Rec_H3TooWordy

TooLongResults(results, level, text) ==
    IF text.length > MAX_HEADING_LENGTH
    THEN _add_result(results, WARNING, TooLongMessage(level), ContentElement(level),
                     <<text.length>>, TooLongRec(level))
    ELSE results

TooWordyResults(results, level, text) ==
    IF text.words > MAX_HEADING_WORDS
    THEN _add_result(results, WARNING, TooWordyMessage(level), ContentElement(level),
                     <<text.words>>, TooWordyRec(level))
    ELSE results

\* The loop over the texts of one level.
RECURSIVE TextsResults(_, _, _)
TextsResults(results, level, texts) ==
    IF texts = <<>> THEN results
    ELSE TextsResults(
             TooWordyResults(TooLongResults(results, level, Head(texts)), level, Head(texts)),
             level, Tail(texts))

\* The loop over all_headings.items(), which visits the levels in the order h1..h6.
RECURSIVE QualityResults(_, _, _)
QualityResults(results, all_headings, level) ==
    IF level > 6 THEN results
    ELSE IF level <= 3
    THEN QualityResults(TextsResults(results, level, all_headings[level]),
                        all_headings, level + 1)
    ELSE QualityResults(results, all_headings, level + 1)

\* self._results after _analyze_headings_structure, given the dict of get_all_headings
HeadingsResultsOf(results, all_headings) ==
    IF HeadingKeys(all_headings) = {}
    THEN _add_result(results, WARNING, "No Headings Found", "Headings Structure", <<>>,
                     Rec_NoHeadingsFound)
    ELSE QualityResults(
             LogicalResults(
                 SkippedResults(
                     StartResults(H1Results(results, Len(all_headings[1])),
                                  HeadingKeys(all_headings)),
                     HeadingKeys(all_headings), 0, 1),
                 HeadingKeys(all_headings)),
             all_headings, 1)

HeadingsResults(results, doc) == HeadingsResultsOf(results, get_all_headings(doc))

\* sum(len(texts) for texts in all_headings.values())
RECURSIVE TotalHeadings(_, _)
TotalHeadings(all_headings, level) ==
    IF level > 6 THEN 0
    ELSE Len(all_headings[level]) + TotalHeadings(all_headings, level + 1)

\* The dict that _analyze_headings_structure returns.
HeadingsReport(doc) ==
    [all_headings |-> get_all_headings(doc),
     h1_tags_content |-> get_all_headings(doc)[1],
     h1_count |-> Len(get_all_headings(doc)[1]),
     total_headings_count |-> TotalHeadings(get_all_headings(doc), 1)]

(***************************************************************************)
(* Seokar._analyze_content_quality                                         *)
(***************************************************************************)

MIN_CONTENT_LENGTH == 300

\* MIN_TEXT_HTML_RATIO (15.0), in hundredths of a percent
MIN_TEXT_HTML_RATIO == 1500

\* round(a / b) for integers a >= 0 and b > 0: to the nearest integer, a tie to the
\* even one.
Round(a, b) ==
    IF 2 * (a % b) < b THEN a \div b
    ELSE IF 2 * (a % b) > b THEN (a \div b) + 1
    ELSE IF (a \div b) % 2 = 0 THEN a \div b
    ELSE (a \div b) + 1

\* doc.content: the text of get_main_content_text, known by its number of
\* characters, of words (\b\w+\b), of sentences (non-blank pieces between runs of
\* .!?) and of syllables (the sum of _count_syllables_in_word over the words).
get_main_content_text(doc) == doc.content

\* doc.html_length: len(self.html_content), which __init__ keeps above 0.
\* The ratio in hundredths of a percent: round(text / html * 100, 2).
_calculate_text_to_html_ratio(doc) ==
    IF doc.html_length = 0 THEN 0
    ELSE Round(get_main_content_text(doc).chars * 10000, doc.html_length)

\* 1000 * words * sentences times the Flesch formula
\* 206.835 - 1.015 * (words / sentences) - 84.6 * (syllables / words).
FleschNumerator(text) ==
    206835 * text.words * text.sentences
    - 1015 * text.words * text.words
    - 84600 * text.syllables * text.sentences

\* The score in tenths: round(max(0.0, min(100.0, score)), 1).  The arithmetic is
\* exact where the source's is binary floating point: the two agree unless the exact
\* score lies halfway between two tenths, which no text of the module does.
_calculate_flesch_reading_ease(text) ==
    IF text.chars = 0 THEN 0
    ELSE IF text.sentences = 0 \/ text.words < 5 THEN 0
    ELSE IF text.syllables = 0 THEN 0
    ELSE IF FleschNumerator(text) <= 0 THEN 0
    ELSE IF FleschNumerator(text) >= 100 * 1000 * text.words * text.sentences THEN 1000
    ELSE Round(FleschNumerator(text), 100 * text.words * text.sentences)

LengthResults(results, content_length_chars) ==
    IF content_length_chars = 0
    THEN _add_result(results, WARNING, "No Main Content Text Extracted",
                     "Content Quality", <<>>, Rec_NoMainContentTextExtracted)
    ELSE IF content_length_chars < MIN_CONTENT_LENGTH
    THEN _add_result(results, WARNING, "Thin Content (Low Word Count)",
                     "Content Quality", <<content_length_chars>>,
                     Rec_ThinContentLowWordCount)
    ELSE _add_result(results, GOOD, "Sufficient Content Length", "Content Quality",
                     <<content_length_chars>>, NoneStr)

RatioResults(results, text_html_ratio) ==
    IF text_html_ratio < MIN_TEXT_HTML_RATIO
    THEN _add_result(results, WARNING, "Low Text-to-HTML Ratio", "Content Quality",
                     <<text_html_ratio>>, Rec_LowTextToHTMLRatio)
    ELSE _add_result(results, GOOD, "Acceptable Text-to-HTML Ratio", "Content Quality",
                     <<text_html_ratio>>, NoneStr)

ReadabilityResults(results, content_length_chars, readability_score) ==
    IF content_length_chars > 50
    THEN IF readability_score < 300
         THEN _add_result(results, ERROR, "Very Low Readability Score",
                          "Content Readability", <<readability_score>>,
                          Rec_VeryLowReadabilityScore)
         ELSE IF readability_score < 600
         THEN _add_result(results, WARNING, "Low to Moderate Readability Score",
                          "Content Readability", <<readability_score>>,
                          Rec_LowToModerateReadabilityScore)
         ELSE _add_result(results, GOOD, "Good Readability Score",
                          "Content Readability", <<readability_score>>, NoneStr)
    ELSE IF content_length_chars > 0
    THEN _add_result(results, INFO, "Readability Not Assessed (Short Content)",
                     "Content Readability", <<>>, NoneStr)
    ELSE results

\* self._results after _analyze_content_quality
ContentResults(results, doc) ==
    ReadabilityResults(
        RatioResults(
            LengthResults(results, get_main_content_text(doc).chars),
            _calculate_text_to_html_ratio(doc)),
        get_main_content_text(doc).chars,
        _calculate_flesch_reading_ease(get_main_content_text(doc)))

\* The dict that _analyze_content_quality returns, without its keyword density and
\* its counts of paragraphs, videos and tables.
ContentReport(doc) ==
    [content_length_chars |-> get_main_content_text(doc).chars,
     text_to_html_ratio_percent |-> _calculate_text_to_html_ratio(doc),
     flesch_reading_ease_score |->
         IF get_main_content_text(doc).chars > 50
         THEN _calculate_flesch_reading_ease(get_main_content_text(doc))
         ELSE NoneInt]

(***************************************************************************)
(* Seokar._analyze_images_alt_text                                         *)
(***************************************************************************)

MAX_ALT_TEXT_LENGTH == 125

\* doc.images: the <img> elements in document order, each with the length of its
\* alt.strip() (NoneInt without the attribute) and whether it has
\* role='presentation' or aria-hidden='true'.
get_all_images(doc) == doc.images

NoImagesResults(results, images) ==
    IF Len(images) = 0
    THEN _add_result(results, INFO, "No Images Found on Page", "Image SEO", <<>>,
                     Rec_NoImagesFoundOnPage)
    ELSE results

\* The body of the loop over the images.
ImageResults(results, img_tag) ==
    IF img_tag.alt = NoneInt
    THEN _add_result(results, ERROR, "Missing Alt Attribute", "Image Alt Text", <<>>,
                     Rec_MissingAltAttribute)
    ELSE IF img_tag.alt = 0
    THEN IF img_tag.decorative
         THEN _add_result(results, GOOD, "Decorative Image Correctly Marked",
                          "Image Alt Text", <<>>, NoneStr)
         ELSE _add_result(results, WARNING,
                          "Empty Alt Text for Potentially Non-Decorative Image",
                          "Image Alt Text", <<>>,
                          Rec_EmptyAltTextForPotentiallyNonDecorativeImage)
    ELSE IF img_tag.alt > MAX_ALT_TEXT_LENGTH
    THEN _add_result(results, WARNING, "Alt Text Too Long", "Image Alt Text",
                     <<img_tag.alt>>, Rec_AltTextTooLong)
    ELSE results

RECURSIVE ImagesLoop(_, _)
ImagesLoop(results, images) ==
    IF images = <<>> THEN results
    ELSE ImagesLoop(ImageResults(results, Head(images)), Tail(images))

\* The counters of the loop.
WithAlt(images) == Cardinality({i \in DOMAIN images : images[i].alt # NoneInt})
MissingAlt(images) == Cardinality({i \in DOMAIN images : images[i].alt = NoneInt})
EmptyAlt(images) == Cardinality({i \in DOMAIN images : images[i].alt = 0})
LongAlt(images) ==
    Cardinality({i \in DOMAIN images : images[i].alt > MAX_ALT_TEXT_LENGTH})
MarkedDecorative(images) ==
    Cardinality({i \in DOMAIN images : images[i].alt = 0 /\ images[i].decorative})

CoverageResults(results, images) ==
    IF /\ Len(images) > 0
       /\ MissingAlt(images) = 0
       /\ EmptyAlt(images) = MarkedDecorative(images)
    THEN _add_result(results, GOOD, "Good Image Alt Text Coverage", "Image Alt Text",
                     <<>>, NoneStr)
    ELSE IF /\ Len(images) > 0
            /\ MissingAlt(images) = 0
            /\ EmptyAlt(images) > MarkedDecorative(images)
    THEN _add_result(results, INFO, "Some Images Have Empty Alt Text", "Image Alt Text",
                     <<EmptyAlt(images) - MarkedDecorative(images)>>,
                     NoneStr)
    ELSE results

\* self._results after _analyze_images_alt_text
ImagesResults(results, doc) ==
    CoverageResults(
        ImagesLoop(NoImagesResults(results, get_all_images(doc)), get_all_images(doc)),
        get_all_images(doc))

\* The dict that _analyze_images_alt_text returns.
ImagesReport(doc) ==
    [total_images_found |-> Len(get_all_images(doc)),
     images_with_alt_attribute |-> WithAlt(get_all_images(doc)),
     images_missing_alt_attribute |-> MissingAlt(get_all_images(doc)),
     images_with_empty_alt_text |-> EmptyAlt(get_all_images(doc)),
     images_with_long_alt_text |-> LongAlt(get_all_images(doc)),
     decorative_images_correctly_marked |->
         MarkedDecorative(get_all_images(doc))]

(***************************************************************************)
(* Seokar._calculate_anchor_text_distribution                              *)
(***************************************************************************)

\* The text that _extract_links gives a link whose anchor has none.
NoAnchorText == <<"[","N","o"," ","A","n","c","h","o","r"," ","T","e","x","t","]">>

generic_anchors_lower ==
    {<<"c","l","i","c","k"," ","h","e","r","e">>, <<"r","e","a","d"," ","m","o","r","e">>, <<"l","e","a","r","n"," ","m","o","r","e">>, <<"h","e","r","e">>, <<"m","o","r","e">>, <<"l","i","n","k">>,
     <<"t","h","i","s"," ","l","i","n","k">>, <<"w","e","b","s","i","t","e">>, <<"t","h","i","s">>, <<"c","o","n","t","i","n","u","e"," ","r","e","a","d","i","n","g">>, <<"d","e","t","a","i","l","s">>}

\* len(s.split()): the runs of characters that are not white space.
SplitCount(s) ==
    Cardinality({i \in DOMAIN s : ~IsSpace(s[i]) /\ (i = 1 \/ IsSpace(s[i - 1]))})

\* The condition of the list comprehension that makes anchor_texts_data.
HasAnchorText(link) ==
    /\ Truthy(link.text)
    /\ link.text # NoAnchorText
    /\ Strip(link.text) # <<>>

\* page_domain_main_part: the first label of the host of self.url without its first
\* 'www.', NoneStr without a valid address.
page_domain_main_part(url) ==
    IF Truthy(url) /\ _is_valid_url(url)
    THEN Lower(Split(RemoveFirst(urlparse(url).netloc, <<"w","w","w",".">>), ".")[1])
    ELSE NoneStr

\* The branch of the categorization that a text takes.
\* The same with the short phrases told by their words alone.
Category_by_words_alone(text_lower_stripped, page_domain) ==
    IF text_lower_stripped \in generic_anchors_lower THEN "generic"
    ELSE IF Truthy(page_domain) /\ Contains(text_lower_stripped, page_domain)
    THEN "branded"
    ELSE IF SplitCount(text_lower_stripped) <= 3
    THEN "keyword_like_or_short_phrase"
    ELSE "descriptive_long_phrase"

Category(text_lower_stripped, page_domain) ==
    IF text_lower_stripped \in generic_anchors_lower THEN "generic"
    ELSE IF Truthy(page_domain) /\ Contains(text_lower_stripped, page_domain)
    THEN "branded"
    ELSE IF SplitCount(text_lower_stripped) <= 3 /\ Len(text_lower_stripped) <= 30
    THEN "keyword_like_or_short_phrase"
    ELSE "descriptive_long_phrase"

AnchorCategories ==
    {"generic", "branded", "keyword_like_or_short_phrase", "descriptive_long_phrase"}

\* distribution after the loop over anchor_texts_data: a key for each category
\* that was counted at least once.
RECURSIVE Distribution(_, _, _)
Distribution(distribution, anchor_texts_data, page_domain) ==
    IF anchor_texts_data = <<>> THEN distribution
    ELSE LET key == Category(Strip(Lower(Head(anchor_texts_data).text)), page_domain)
         IN  Distribution(
                 [k \in DOMAIN distribution \cup {key} |->
                     IF k = key
                     THEN (IF k \in DOMAIN distribution THEN distribution[k] ELSE 0) + 1
                     ELSE distribution[k]],
                 Tail(anchor_texts_data), page_domain)

\* The dict returned: for each key the share of its count in the links that have
\* an anchor text, round(..., 1) of the percentage, in tenths of a percent; the
\* empty dict without such links.
_calculate_anchor_text_distribution(links, url) ==
    LET anchor_texts_data == SelectSeq(links, HasAnchorText)
        distribution == Distribution(<<>>, anchor_texts_data, page_domain_main_part(url))
    IN  IF Len(anchor_texts_data) = 0 THEN <<>>
        ELSE [key \in DOMAIN distribution |->
                 Round(1000 * distribution[key], Len(anchor_texts_data))]

(***************************************************************************)
(* Seokar.get_all_links and Seokar._analyze_page_links                     *)
(***************************************************************************)

JavascriptColon == <<"j","a","v","a","s","c","r","i","p","t",":">>
MailtoColon == <<"m","a","i","l","t","o",":">>
TelColon == <<"t","e","l",":">>

\* Whether _extract_links passes over an href: empty, a script, mail or phone
\* reference, or a fragment other than '#'.
Ignored(href_stripped) ==
    \/ href_stripped = <<>>
    \/ StartsWith(href_stripped, JavascriptColon)
    \/ StartsWith(href_stripped, MailtoColon)
    \/ StartsWith(href_stripped, TelColon)
    \/ (StartsWith(href_stripped, <<"#">>) /\ Len(href_stripped) > 1)

\* link_data, without the title and the sponsored and ugc flags; tag.text is the
\* anchor's get_text(strip=True).
LinkData(absolute_url, tag) ==
    [url |-> absolute_url,
     text |-> IF tag.text # <<>> THEN tag.text ELSE NoAnchorText,
     is_nofollow |-> tag.nofollow]

\* One more link in the list it belongs to.
\* The same with an internal link added to the external list as well.
Classified_in_both(links, url, link_data) ==
    IF _is_internal_url(url, link_data.url)
    THEN [links EXCEPT !.internal = Append(@, link_data),
                       !.external = Append(@, link_data)]
    ELSE [links EXCEPT !.external = Append(@, link_data)]

Classified(links, url, link_data) ==
    IF _is_internal_url(url, link_data.url)
    THEN [links EXCEPT !.internal = Append(@, link_data)]
    ELSE [links EXCEPT !.external = Append(@, link_data)]

\* The body of the loop of _extract_links, from the resolved reference on.
Extracted(links, url, absolute_url, tag) ==
    IF Truthy(absolute_url) THEN Classified(links, url, LinkData(absolute_url, tag))
    ELSE links

\* doc.anchors: the <a href> elements in document order, each with its href and
\* whether its rel holds 'nofollow', and its text.
RECURSIVE ExtractLoop(_, _, _, _)
ExtractLoop(links, base_href, url, a_tags) ==
    IF a_tags = <<>> THEN links
    ELSE IF ~Truthy(Head(a_tags).href) \/ Ignored(Strip(Head(a_tags).href))
    THEN ExtractLoop(links, base_href, url, Tail(a_tags))
    ELSE ExtractLoop(
             Extracted(links, url,
                       _make_absolute_url(base_href, url, Strip(Head(a_tags).href)),
                       Head(a_tags)),
             base_href, url, Tail(a_tags))

_extract_links(doc, url) ==
    ExtractLoop([internal |-> <<>>, external |-> <<>>], doc.base_href, url, doc.anchors)

\* sum(1 for link in links if link['is_nofollow'])
NoFollowCount(links) == Cardinality({i \in DOMAIN links : links[i].is_nofollow})

NoInternalResults(results, total_internal, url) ==
    IF total_internal = 0 /\ Truthy(url)
    THEN _add_result(results, WARNING, "No Internal Links Found", "Link Structure",
                     <<>>, Rec_NoInternalLinksFound)
    ELSE results

NoFollowResults(results, nofollow_internal_count) ==
    IF nofollow_internal_count > 0
    THEN _add_result(results, INFO, "{nofollow_internal_count} Internal Nofollow Links",
                     "Link Structure", <<nofollow_internal_count>>,
                     Rec_InternalNofollowLinks)
    ELSE results

\* total_external / total_links > 0.6, for total_links > 0
ExternalResults(results, total_internal, total_external) ==
    IF /\ total_internal + total_external > 0
       /\ total_external > 20
       /\ 10 * total_external > 6 * (total_internal + total_external)
    THEN _add_result(results, INFO, "High Ratio of External Links", "Link Structure",
                     <<total_external, total_internal + total_external>>,
                     Rec_HighRatioOfExternalLinks)
    ELSE results

\* self._results after _analyze_page_links, given the dict of get_all_links
LinksResultsOf(results, all_links_data, url) ==
    ExternalResults(
        NoFollowResults(
            NoInternalResults(results, Len(all_links_data.internal), url),
            NoFollowCount(all_links_data.internal)),
        Len(all_links_data.internal), Len(all_links_data.external))

\* The dict that _analyze_page_links returns.
LinksReportOf(all_links_data, url) ==
    [total_links_found |-> Len(all_links_data.internal) + Len(all_links_data.external),
     internal_links_count |-> Len(all_links_data.internal),
     external_links_count |-> Len(all_links_data.external),
     nofollow_internal_links_count |-> NoFollowCount(all_links_data.internal),
     nofollow_external_links_count |-> NoFollowCount(all_links_data.external),
     anchor_text_distribution_percent |->
         _calculate_anchor_text_distribution(
             all_links_data.internal \o all_links_data.external, url)]

(***************************************************************************)
(* Seokar._get_social_media_tags_data                                      *)
(***************************************************************************)

\* doc.og: the property values of the <meta property="og:..."> elements that have
\* content, og:description apart; doc.og_description: the length of the content of
\* <meta property="og:description">, NoneInt without the element.  Together the
\* keys of the dict of get_open_graph_tags.
get_open_graph_tags(doc) ==
    doc.og \cup (IF doc.og_description > 0 THEN {"og:description"} ELSE {})

\* doc.twitter_name and doc.twitter_property: the same for the twitter: elements
\* named by `name` and by `property`; the merged dict has the keys of both.
get_twitter_card_tags(doc) == doc.twitter_property \cup doc.twitter_name

required_og_tags == {"og:title", "og:type", "og:image", "og:url"}

OpenGraphResults(results, og_tags) ==
    IF required_og_tags \ og_tags # {}
    THEN _add_result(results, WARNING, "Missing Essential Open Graph Tags", "Open Graph",
                     <<>>, Rec_MissingEssentialOpenGraphTags)
    ELSE IF "og:description" \notin og_tags
    THEN _add_result(results, INFO, "Missing Recommended Open Graph Description",
                     "Open Graph", <<>>, Rec_MissingRecommendedOpenGraphDescription)
    ELSE IF og_tags # {}
    THEN _add_result(results, GOOD, "Essential Open Graph Tags Present", "Open Graph",
                     <<>>, NoneStr)
    ELSE results

TwitterResults(results, twitter_tags) ==
    IF twitter_tags # {}
    THEN IF "twitter:card" \notin twitter_tags
         THEN _add_result(results, WARNING, "Missing Twitter Card Type", "Twitter Card",
                          <<>>, Rec_MissingTwitterCardType)
         ELSE IF "twitter:title" \notin twitter_tags \/ "twitter:image" \notin twitter_tags
         THEN _add_result(results, WARNING, "Potentially Incomplete Twitter Card Tags",
                          "Twitter Card", <<>>, Rec_PotentiallyIncompleteTwitterCardTags)
         ELSE _add_result(results, GOOD, "Twitter Card Tags Appear Configured",
                          "Twitter Card", <<>>, NoneStr)
    ELSE _add_result(results, INFO, "No Twitter Card Tags Found", "Twitter Card", <<>>,
                     Rec_NoTwitterCardTagsFound)

\* self._results after _get_social_media_tags_data
SocialResults(results, doc) ==
    TwitterResults(OpenGraphResults(results, get_open_graph_tags(doc)),
                   get_twitter_card_tags(doc))

\* The dict that _get_social_media_tags_data returns, by the keys of its dicts.
SocialReport(doc) ==
    [open_graph_tags |-> get_open_graph_tags(doc),
     twitter_card_tags |-> get_twitter_card_tags(doc)]

(***************************************************************************)
(* Seokar.get_json_ld_data and Seokar._get_all_structured_data_info        *)
(***************************************************************************)

\* doc.json_ld: the <script type="application/ld+json"> elements in document order.
\* Each has a kind: "empty" (no text, or blank), "malformed" (json.loads raises
\* JSONDecodeError), "scalar" (the JSON is neither an object nor an array),
\* "object", "array"; and the items of its array, or its one object, each a dict or
\* not.
\* The dicts among the items: `item for item in data if isinstance(item, dict)`.
RECURSIVE DictItems(_)
DictItems(items) ==
    IF items = <<>> THEN <<>>
    ELSE IF Head(items).is_dict THEN <<Head(items)>> \o DictItems(Tail(items))
    ELSE DictItems(Tail(items))

\* The body of the loop of get_json_ld_data: acc holds the cache and self._results.
\* The same with a malformed script losing what the scripts before it gave.
JsonLdScript_malformed_aborts(acc, script_tag) ==
    IF script_tag.kind = "empty"
    THEN [acc EXCEPT !.results =
             _add_result(@, INFO, "Empty JSON-LD Script Tag", "JSON-LD", <<>>,
                         Rec_EmptyJSONLDScriptTag)]
    ELSE IF script_tag.kind = "malformed"
    THEN [cache |-> <<>>,
          results |-> _add_result(acc.results, ERROR, "JSON-LD Parsing Error",
                                  "JSON-LD", <<>>, Rec_JSONLDParsingError)]
    ELSE IF script_tag.kind = "object"
    THEN [acc EXCEPT !.cache = @ \o script_tag.items]
    ELSE IF script_tag.kind = "array"
    THEN [acc EXCEPT !.cache = @ \o DictItems(script_tag.items)]
    ELSE [acc EXCEPT !.results =
             _add_result(@, WARNING, "Invalid JSON-LD Top-Level Structure", "JSON-LD",
                         <<>>, Rec_InvalidJSONLDTopLevelStructure)]

JsonLdScript(acc, script_tag) ==
    IF script_tag.kind = "empty"
    THEN [acc EXCEPT !.results =
             _add_result(@, INFO, "Empty JSON-LD Script Tag", "JSON-LD", <<>>,
                         Rec_EmptyJSONLDScriptTag)]
    ELSE IF script_tag.kind = "malformed"
    THEN [acc EXCEPT !.results =
             _add_result(@, ERROR, "JSON-LD Parsing Error", "JSON-LD", <<>>,
                         Rec_JSONLDParsingError)]
    ELSE IF script_tag.kind = "object"
    THEN [acc EXCEPT !.cache = @ \o script_tag.items]
    ELSE IF script_tag.kind = "array"
    THEN [acc EXCEPT !.cache = @ \o DictItems(script_tag.items)]
    ELSE [acc EXCEPT !.results =
             _add_result(@, WARNING, "Invalid JSON-LD Top-Level Structure", "JSON-LD",
                         <<>>, Rec_InvalidJSONLDTopLevelStructure)]

RECURSIVE JsonLdLoop(_, _)
JsonLdLoop(acc, scripts) ==
    IF scripts = <<>> THEN acc
    ELSE JsonLdLoop(JsonLdScript(acc, Head(scripts)), Tail(scripts))

\* A cache attribute that holds a value: None is NoneRec.
Cached(v) == [value |-> v]

\* get_json_ld_data with self._json_ld_cache = cache: the list in the cache and
\* self._results after the call.  The scripts are read only when the cache is None.
get_json_ld_data(cache, results, doc) ==
    IF cache = NoneRec
    THEN JsonLdLoop([cache |-> <<>>, results |-> results], doc.json_ld)
    ELSE [cache |-> cache.value, results |-> results]

\* doc.microdata and doc.rdfa: the number of items that get_microdata and
\* get_rdfa_data return.
get_microdata(doc) == doc.microdata
get_rdfa_data(doc) == doc.rdfa

JsonLdFound(results, json_ld_data_list) ==
    IF json_ld_data_list # <<>>
    THEN _add_result(results, GOOD, "JSON-LD Data Found", "Structured Data (JSON-LD)",
                     <<Len(json_ld_data_list)>>, Rec_JSONLDDataFound)
    ELSE results

MicrodataFound(results, microdata_items) ==
    IF microdata_items > 0
    THEN _add_result(results, INFO, "Microdata Found", "Structured Data (Microdata)",
                     <<microdata_items>>, Rec_MicrodataFound)
    ELSE results

RdfaFound(results, rdfa_items) ==
    IF rdfa_items > 0
    THEN _add_result(results, INFO, "RDFa Data Found", "Structured Data (RDFa)",
                     <<rdfa_items>>, Rec_RdfaDataFound)
    ELSE results

\* The results of _get_all_structured_data_info after its three getters returned.
FormatsResults(results, json_ld_data_list, microdata_items, rdfa_items) ==
    IF json_ld_data_list = <<>> /\ microdata_items = 0 /\ rdfa_items = 0
    THEN _add_result(results, INFO, "No Common Structured Data Detected",
                     "Structured Data", <<>>, Rec_NoCommonStructuredDataDetected)
    ELSE RdfaFound(
             MicrodataFound(JsonLdFound(results, json_ld_data_list), microdata_items),
             rdfa_items)

\* The list of self._json_ld_cache and self._results after _get_all_structured_data_info:
\* got is what its call of get_json_ld_data left.
StructuredDataOf(got, doc) ==
    [cache |-> got.cache,
     results |-> FormatsResults(got.results, got.cache, get_microdata(doc),
                                get_rdfa_data(doc))]

StructuredData(cache, results, doc) ==
    StructuredDataOf(get_json_ld_data(cache, results, doc), doc)

\* The dict that _get_all_structured_data_info returns, without the detected types.
StructuredDataReport(json_ld_data_list, doc) ==
    [json_ld_data_blocks |-> json_ld_data_list,
     microdata_items |-> get_microdata(doc),
     rdfa_items |-> get_rdfa_data(doc)]

(***************************************************************************)
(* SeokarAnalyzer (analyzer.py), constructed with html_content             *)
(*                                                                         *)
(* Its tree self._soup is the parse of the same markup, read as doc.  The  *)
(* elements of the pages are written in lower case, where the getters of   *)
(* both classes find the same elements.                                    *)
(***************************************************************************)

\* SeoLimits.H1_MAX_COUNT
H1_MAX_COUNT == 1

\* TechnicalIssues
MISSING_TITLE == "Missing Title"
MISSING_META_DESCRIPTION == "Missing Meta Description"
MULTIPLE_H1 == "Multiple H1 Tags"
NO_CANONICAL == "No Canonical URL"

\* The attributes of the class StatusCode.
StatusCodeAttributes ==
    {"OK", "MOVED_PERMANENTLY", "FOUND", "NOT_FOUND", "FORBIDDEN", "INTERNAL_SERVER_ERROR"}

\* The title by its length; an empty <title> has no string.
_get_title(doc) == IF doc.title > 0 THEN doc.title ELSE NoneInt

\* The description by its length: of the meta element named description when there
\* is one, else of og:description.
_get_meta_description(doc) ==
    IF doc.meta_description # NoneInt
    THEN (IF doc.meta_description > 0 THEN doc.meta_description ELSE NoneInt)
    ELSE IF doc.og_description > 0 THEN doc.og_description
    ELSE NoneInt

_get_h1_tags(doc) == HeadingTexts(doc.headings, 1)

_get_canonical_url(doc) ==
    IF Truthy(doc.canonical_href) THEN Strip(doc.canonical_href) ELSE NoneStr

_get_robots_tag(doc) ==
    IF Truthy(doc.meta_robots) THEN Strip(doc.meta_robots) ELSE NoneStr

TitleIssue(issues, title) ==
    IF title = NoneInt THEN Append(issues, MISSING_TITLE) ELSE issues

DescriptionIssue(issues, meta_description) ==
    IF meta_description = NoneInt THEN Append(issues, MISSING_META_DESCRIPTION)
    ELSE issues

H1Issue(issues, h1_tags) ==
    IF Len(h1_tags) > H1_MAX_COUNT THEN Append(issues, MULTIPLE_H1) ELSE issues

CanonicalIssue(issues, canonical_url) ==
    IF ~Truthy(canonical_url) THEN Append(issues, NO_CANONICAL) ELSE issues

NoIndexIssue(issues, robots_tag_lower) ==
    IF Contains(robots_tag_lower, NoIndex)
    THEN Append(issues, "Robots Tag contains 'noindex' directive.")
    ELSE issues

NoFollowIssue(issues, robots_tag_lower) ==
    IF Contains(robots_tag_lower, NoFollow)
    THEN Append(issues, "Robots Tag contains 'nofollow' directive.")
    ELSE issues

RobotsIssues(issues, robots_tag_content) ==
    IF Truthy(robots_tag_content)
    THEN NoFollowIssue(NoIndexIssue(issues, Lower(robots_tag_content)),
                       Lower(robots_tag_content))
    ELSE issues

\* The list issues of _analyze_technical_issues when it reaches the HTTP status check.
IssuesBeforeStatusCheck(doc) ==
    RobotsIssues(
        CanonicalIssue(
            H1Issue(
                DescriptionIssue(TitleIssue(<<>>, _get_title(doc)),
                                 _get_meta_description(doc)),
                _get_h1_tags(doc)),
            _get_canonical_url(doc)),
        _get_robots_tag(doc))

\* How _analyze_technical_issues ends.  The tree and the status code are set, so the
\* checks run up to the HTTP status check, whose first comparison reads
\* StatusCode.BAD_REQUEST: the class has no such attribute and the read raises
\* AttributeError, with the issues found so far lost.
_analyze_technical_issues(doc) ==
    IF "BAD_REQUEST" \in StatusCodeAttributes
    THEN [raised |-> "none", issues |-> IssuesBeforeStatusCheck(doc)]
    ELSE [raised |-> "AttributeError", issues |-> IssuesBeforeStatusCheck(doc)]

(***************************************************************************)
(* Seokar.get_microdata and Seokar.get_rdfa_data, element by element       *)
(*                                                                         *)
(* The elements of the page in document order, each with the element it is *)
(* a child of (0 for the top of the tree).  Read for Microdata, scope is   *)
(* the itemscope attribute, type the itemtype and names the itemprop       *)
(* attribute split at white space; read for RDFa they are typeof (present, *)
(* and its text) and property.  prop tells whether the attribute of the    *)
(* names is there at all.  A value that the code reads from an element is  *)
(* written as that element's position; the placeholder strings of nested   *)
(* items are written with nested = TRUE.                                   *)
(***************************************************************************)

\* find_parent(attrs={...: True}): the nearest ancestor with the scope attribute,
\* 0 without one.
\* The same reaching the outermost ancestor with the scope attribute.
RECURSIVE NearestScoped_outermost(_, _)
NearestScoped_outermost(elements, i) ==
    IF elements[i].parent = 0 THEN 0
    ELSE IF NearestScoped_outermost(elements, elements[i].parent) # 0
    THEN NearestScoped_outermost(elements, elements[i].parent)
    ELSE IF elements[elements[i].parent].scope THEN elements[i].parent
    ELSE 0

RECURSIVE NearestScoped(_, _)
NearestScoped(elements, i) ==
    IF elements[i].parent = 0 THEN 0
    ELSE IF elements[elements[i].parent].scope THEN elements[i].parent
    ELSE NearestScoped(elements, elements[i].parent)

\* Whether element i is among item_tag.find_all(...): below element s.
RECURSIVE IsDescendant(_, _, _)
IsDescendant(elements, i, s) ==
    IF elements[i].parent = 0 THEN FALSE
    ELSE IF elements[i].parent = s THEN TRUE
    ELSE IsDescendant(elements, elements[i].parent, s)

\* item_props after one more value under one name: a dict from names to the values
\* in the order read (the code keeps a single value bare and makes a list from the
\* second on).
AddProp(item_props, prop_name, prop_value) ==
    IF prop_name \in DOMAIN item_props
    THEN [item_props EXCEPT ![prop_name] = Append(@, prop_value)]
    ELSE item_props @@ (prop_name :> <<prop_value>>)

\* The loop over prop_name_list.
RECURSIVE AddNames(_, _, _)
AddNames(item_props, prop_name_list, prop_value) ==
    IF prop_name_list = <<>> THEN item_props
    ELSE AddNames(AddProp(item_props, Head(prop_name_list), prop_value),
                  Tail(prop_name_list), prop_value)

\* prop_value of get_microdata: the placeholder for a property that is an item
\* itself, else what the element's value attribute or text gives, None when a
\* meta, media, link or time element lacks its value attribute.
MicrodataValue(elements, p) ==
    IF elements[p].scope THEN [element |-> p, nested |-> TRUE]
    ELSE IF elements[p].valued THEN [element |-> p, nested |-> FALSE]
    ELSE NoneRec

\* prop_value of get_rdfa_data: the placeholder for a nested typed resource, else the
\* content, href, src, datetime or text of the element, which is never None.
RdfaValue(elements, p) ==
    IF elements[p].scope THEN [element |-> p, nested |-> TRUE]
    ELSE [element |-> p, nested |-> FALSE]

\* The body of the loop over the property elements, after the value was read.
PropAdded(item_props, prop_name_list, prop_value) ==
    IF prop_name_list = <<>> \/ prop_value = NoneRec THEN item_props
    ELSE AddNames(item_props, prop_name_list, prop_value)

\* The loop of get_microdata over item_tag.find_all(attrs={'itemprop': True}), from
\* element p on.
RECURSIVE MicrodataProps(_, _, _, _)
MicrodataProps(elements, item_tag, p, item_props) ==
    IF p > Len(elements) THEN item_props
    ELSE IF /\ elements[p].prop
            /\ IsDescendant(elements, p, item_tag)
            /\ NearestScoped(elements, p) = item_tag
    THEN MicrodataProps(elements, item_tag, p + 1,
             PropAdded(item_props, elements[p].names, MicrodataValue(elements, p)))
    ELSE MicrodataProps(elements, item_tag, p + 1, item_props)

\* The same loop of get_rdfa_data over item_tag.find_all(attrs={'property': True}).
RECURSIVE RdfaProps(_, _, _, _)
RdfaProps(elements, item_tag, p, item_props) ==
    IF p > Len(elements) THEN item_props
    ELSE IF /\ elements[p].prop
            /\ IsDescendant(elements, p, item_tag)
            /\ NearestScoped(elements, p) = item_tag
    THEN RdfaProps(elements, item_tag, p + 1,
             PropAdded(item_props, elements[p].names, RdfaValue(elements, p)))
    ELSE RdfaProps(elements, item_tag, p + 1, item_props)

\* The item appended for one scoped element, when it has a property.
ItemAppended(items, item_type, item_props) ==
    IF DOMAIN item_props # {}
    THEN Append(items, [type |-> item_type, properties |-> item_props])
    ELSE items

\* The loop of get_microdata over self.soup.find_all(attrs={'itemscope': True}).
RECURSIVE MicrodataItems(_, _, _)
MicrodataItems(elements, i, microdata_items) ==
    IF i > Len(elements) THEN microdata_items
    ELSE IF elements[i].scope
    THEN MicrodataItems(elements, i + 1,
             ItemAppended(microdata_items, elements[i].type,
                          MicrodataProps(elements, i, i + 1, <<>>)))
    ELSE MicrodataItems(elements, i + 1, microdata_items)

\* The loop of get_rdfa_data over self.soup.find_all(attrs={'typeof': True}); no
\* element of the pages has a resource, about, src or href beside its typeof, so an
\* item is appended when it has a property.
RECURSIVE RdfaItems(_, _, _)
RdfaItems(elements, i, rdfa_items) ==
    IF i > Len(elements) THEN rdfa_items
    ELSE IF elements[i].scope
    THEN RdfaItems(elements, i + 1,
             ItemAppended(rdfa_items, elements[i].type,
                          RdfaProps(elements, i, i + 1, <<>>)))
    ELSE RdfaItems(elements, i + 1, rdfa_items)

(***************************************************************************)
(* Seokar._calculate_keyword_density and utils.text_analysis               *)
(* .calculate_keyword_density                                              *)
(*                                                                         *)
(* A text is its characters.  The texts of the model are made of ASCII     *)
(* letters, digits, blanks, hyphens, apostrophes and commas; on them \b of *)
(* the pattern holds at both ends of every run the pattern can match.  A   *)
(* density of Seokar is a percentage rounded to two places, written in     *)
(* hundredths of a percent (6667 for 66.67); a density of the utility is   *)
(* the quotient count / total_words, written as the fraction in lowest     *)
(* terms.                                                                  *)
(***************************************************************************)

KEYWORD_DENSITY_MIN_WORD_LEN == 3
KEYWORD_DENSITY_MIN_THRESHOLD_PERCENT == 1

STOP_WORDS ==
    {<<"a">>, <<"a","b","o","u","t">>, <<"a","b","o","v","e">>, <<"a","f","t","e","r">>,
     <<"a","g","a","i","n">>, <<"a","g","a","i","n","s","t">>, <<"a","l","l">>,
     <<"a","n">>, <<"a","n","d">>, <<"a","n","y">>, <<"a","r","e">>, <<"a","s">>,
     <<"a","t">>, <<"b","e">>, <<"b","e","c","a","u","s","e">>,
     <<"b","e","f","o","r","e">>, <<"b","e","l","o","w">>,
     <<"b","e","t","w","e","e","n">>, <<"b","o","t","h">>, <<"b","u","t">>, <<"b","y">>,
     <<"c","a","n">>, <<"c","o","n","t","e","n","t">>, <<"d","i","d">>, <<"d","o">>,
     <<"d","o","e","s">>, <<"d","o","n">>, <<"d","o","n","'","t">>, <<"d","o","w","n">>,
     <<"d","u","r","i","n","g">>, <<"e","a","c","h">>, <<"f","e","w">>, <<"f","o","r">>,
     <<"f","r","o","m">>, <<"f","u","r","t","h","e","r">>, <<"g","e","t">>,
     <<"g","o","t">>, <<"h","a","s">>, <<"h","e">>, <<"h","e","r","e">>,
     <<"h","o","w">>, <<"h","t","m","l">>, <<"i">>, <<"i","f">>, <<"i","n">>,
     <<"i","n","t","o">>, <<"i","s">>, <<"i","t">>, <<"i","t","s">>,
     <<"j","u","s","t">>, <<"l","l">>, <<"m","e">>, <<"m","e","t","a">>,
     <<"m","o","r","e">>, <<"m","o","s","t">>, <<"m","y">>, <<"n","o">>,
     <<"n","o","r">>, <<"n","o","t">>, <<"n","o","w">>, <<"o","f">>, <<"o","f","f">>,
     <<"o","n">>, <<"o","n","c","e">>, <<"o","n","l","y">>, <<"o","r">>,
     <<"o","t","h","e","r">>, <<"o","u","r">>, <<"o","u","t">>, <<"o","v","e","r">>,
     <<"o","w","n">>, <<"p","a","g","e">>, <<"s">>, <<"s","a","m","e">>,
     <<"s","h","o","u","l","d">>, <<"s","h","o","u","l","d","n","'","t">>, <<"s","o">>,
     <<"s","o","m","e">>, <<"s","u","c","h">>, <<"t">>, <<"t","a","g">>,
     <<"t","h","a","n">>, <<"t","h","a","t">>, <<"t","h","e">>, <<"t","h","e","i","r">>,
     <<"t","h","e","m">>, <<"t","h","e","n">>, <<"t","h","e","r","e">>,
     <<"t","h","e","s","e">>, <<"t","h","e","y">>, <<"t","h","i","s">>,
     <<"t","h","o","s","e">>, <<"t","h","r","o","u","g","h">>, <<"t","o">>,
     <<"t","o","o">>, <<"u","n","d","e","r">>, <<"u","n","t","i","l">>, <<"u","p">>,
     <<"v","e">>, <<"v","e","r","y">>, <<"w","a","s">>, <<"w","e">>,
     <<"w","e","r","e">>, <<"w","h","e","n">>, <<"w","h","e","r","e">>,
     <<"w","h","i","l","e">>, <<"w","h","y">>, <<"w","i","l","l">>, <<"w","i","t","h">>,
     <<"y","o","u">>}

\* [a-z0-9]
WordChar(c) == c \in Range(LowerLetters) \cup Digits

\* The end of the run [a-z0-9]+ that starts at i.
RECURSIVE RunEnd(_, _)
RunEnd(s, i) == IF i < Len(s) /\ WordChar(s[i + 1]) THEN RunEnd(s, i + 1) ELSE i

\* (?:[-'][a-z0-9]+)* after a run that ends at e: the end of the match.
RECURSIVE GroupsEnd(_, _)
GroupsEnd(s, e) ==
    IF e + 2 <= Len(s) /\ s[e + 1] \in {"-", "'"} /\ WordChar(s[e + 2])
    THEN GroupsEnd(s, RunEnd(s, e + 2))
    ELSE e

\* The end of the match of the pattern that starts at i.
TokenEnd(s, i) == GroupsEnd(s, RunEnd(s, i))

\* re.findall(r'\b[a-z0-9]+(?:[-\'][a-z0-9]+)*[a-z0-9]*\b', s) from position i on.
RECURSIVE FindAllWords(_, _)
FindAllWords(s, i) ==
    IF i > Len(s) THEN <<>>
    ELSE IF WordChar(s[i])
    THEN <<SubSeq(s, i, TokenEnd(s, i))>> \o FindAllWords(s, TokenEnd(s, i) + 1)
    ELSE FindAllWords(s, i + 1)

\* len(w) >= self.KEYWORD_DENSITY_MIN_WORD_LEN and w not in self.STOP_WORDS
IsMeaningful(w) == Len(w) >= KEYWORD_DENSITY_MIN_WORD_LEN /\ w \notin STOP_WORDS

\* filtered_single_words
FilteredSingleWords(words) == SelectSeq(words, IsMeaningful)

\* bigrams
Bigrams(words) ==
    [i \in 1..(Len(words) - 1) |-> words[i] \o <<" ">> \o words[i + 1]]

\* term_frequencies[term]
TermFrequency(terms_to_count, term) ==
    Cardinality({i \in DOMAIN terms_to_count : terms_to_count[i] = term})

\* round(x, 2) of the percentage count / denominator * 100, in hundredths.
\* The same cut off after two places.
DensityPercentage_truncated(count, denominator) == (count * 10000) \div denominator

DensityPercentage(count, denominator) == Round(count * 10000, denominator)

\* keyword_density_results: the terms at or above the threshold with their
\* densities.
KeywordDensityResults(terms_to_count, denominator) ==
    {[term |-> t,
      density |-> DensityPercentage(TermFrequency(terms_to_count, t), denominator)] :
         t \in {u \in Range(terms_to_count) :
                   TermFrequency(terms_to_count, u) * 100
                       >= KEYWORD_DENSITY_MIN_THRESHOLD_PERCENT * denominator}}

\* key=lambda item: (-item[1], item[0])
DensityKeyLess(a, b) ==
    a.density > b.density \/ (a.density = b.density /\ StrLess(a.term, b.term))

\* sorted(keyword_density_results.items(), key=...)
RECURSIVE SortedByDensity(_)
SortedByDensity(items) ==
    IF items = {} THEN <<>>
    ELSE <<CHOOSE x \in items : \A y \in items \ {x} : DensityKeyLess(x, y)>>
         \o SortedByDensity(
                items \ {CHOOSE x \in items : \A y \in items \ {x} : DensityKeyLess(x, y)})

\* s[:n]
FirstN(s, n) == SubSeq(s, 1, IF n < Len(s) THEN n ELSE Len(s))

\* _calculate_keyword_density from filtered_single_words on.
\* The same with the number of bigrams as the denominator.
DensityOfWords_over_bigrams(filtered_single_words, top_n) ==
    IF filtered_single_words = <<>> THEN <<>>
    ELSE FirstN(SortedByDensity(
                    KeywordDensityResults(filtered_single_words \o Bigrams(filtered_single_words),
                                          IF Len(filtered_single_words) > 1
                                          THEN Len(filtered_single_words) - 1
                                          ELSE 1)),
                top_n)

DensityOfWords(filtered_single_words, top_n) ==
    IF filtered_single_words = <<>> THEN <<>>
    ELSE FirstN(SortedByDensity(
                    KeywordDensityResults(filtered_single_words \o Bigrams(filtered_single_words),
                                          Len(filtered_single_words))),
                top_n)

\* Seokar._calculate_keyword_density(text, top_n): the items of the dict returned,
\* in its order.
_calculate_keyword_density(text, top_n) ==
    IF text = <<>> \/ Strip(text) = <<>> THEN <<>>
    ELSE DensityOfWords(FilteredSingleWords(FindAllWords(Lower(text), 1)), top_n)

\* [\w\s]
IsWordOrSpace(c) == IsAlpha(c) \/ c \in Digits \cup {"_"} \/ IsSpace(c)

\* re.sub(r'[^\w\s]', '', text)
WithoutPunctuation(text) == SelectSeq(text, IsWordOrSpace)

\* The end of the word that starts at i: the characters up to the next blank.
RECURSIVE WordEnd(_, _)
WordEnd(s, i) == IF i < Len(s) /\ ~IsSpace(s[i + 1]) THEN WordEnd(s, i + 1) ELSE i

\* word_tokenize of nltk on a text without punctuation: its words, as str.split()
\* gives them (the stand-in of test_text_analysis.py), from position i on.
RECURSIVE WordTokenizeFrom(_, _)
WordTokenizeFrom(s, i) ==
    IF i > Len(s) THEN <<>>
    ELSE IF IsSpace(s[i]) THEN WordTokenizeFrom(s, i + 1)
    ELSE <<SubSeq(s, i, WordEnd(s, i))>> \o WordTokenizeFrom(s, WordEnd(s, i) + 1)

WordTokenize(text) == WordTokenizeFrom(text, 1)

RECURSIVE GCD(_, _)
GCD(a, b) == IF b = 0 THEN a ELSE GCD(b, a % b)

\* The float count / total, 0.0 as 0/1.
Quotient(count, total) ==
    IF count = 0 THEN [num |-> 0, den |-> 1]
    ELSE [num |-> count \div GCD(count, total), den |-> total \div GCD(count, total)]

\* words.count(cleaned_keyword) / total_words
KeywordDensity(words, keyword) ==
    Quotient(Cardinality({i \in DOMAIN words :
                              words[i] = Lower(WithoutPunctuation(keyword))}),
             Len(words))

\* calculate_keyword_density(text, keywords), word_tokenize imported or None: the
\* dict returned, as a function of the keywords.
calculate_keyword_density(word_tokenize, text, keywords) ==
    IF ~word_tokenize THEN [k \in Range(keywords) |-> Quotient(0, 1)]
    ELSE IF Strip(text) = <<>> THEN [k \in Range(keywords) |-> Quotient(0, 1)]
    ELSE IF keywords = <<>> THEN <<>>
    ELSE IF WordTokenize(Lower(WithoutPunctuation(text))) = <<>>
    THEN [k \in Range(keywords) |-> Quotient(0, 1)]
    ELSE [k \in Range(keywords) |->
              KeywordDensity(WordTokenize(Lower(WithoutPunctuation(text))), k)]

(***************************************************************************)
(* utils.network.SimpleCache                                               *)
(*                                                                         *)
(* self._cache is a function from the keys it holds to (value, timestamp); *)
(* datetime.now() is the clock, in seconds; a value is a triple            *)
(* (content_bytes, status_code, headers), None is NoneRec.                 *)
(***************************************************************************)

\* ttl: int = 3600
DefaultTtl == 3600

\* SimpleCache._is_expired(timestamp), the clock at now.
\* The same with an entry aged exactly the TTL expired.
_is_expired_at_ttl(now, _ttl, timestamp) == (now - timestamp) >= _ttl

_is_expired(now, _ttl, timestamp) == (now - timestamp) > _ttl

\* del self._cache[key]
Deleted(_cache, key) == [k \in DOMAIN _cache \ {key} |-> _cache[k]]

\* self._cache[key] = entry
Stored(_cache, key, entry) ==
    [k \in DOMAIN _cache \cup {key} |-> IF k = key THEN entry ELSE _cache[k]]

\* SimpleCache.get(key): what it returns, and self._cache after it.
SimpleCache_get(_cache, _ttl, now, key) ==
    IF key \in DOMAIN _cache
    THEN IF ~_is_expired(now, _ttl, _cache[key].timestamp)
         THEN [value |-> _cache[key].value, _cache |-> _cache]
         ELSE [value |-> NoneRec, _cache |-> Deleted(_cache, key)]
    ELSE [value |-> NoneRec, _cache |-> _cache]

\* SimpleCache.set(key, value): self._cache after it.
SimpleCache_set(_cache, now, key, value) ==
    Stored(_cache, key, [value |-> value, timestamp |-> now])

(***************************************************************************)
(* utils.network.fetch_page_content, awaited                               *)
(*                                                                         *)
(* What one `await client.get(url)` followed by raise_for_status() gives   *)
(* is a response: kind "ok" with the triple of a 2xx answer, or the class  *)
(* of the exception raised.  ConnectTimeout and ReadTimeout are            *)
(* TimeoutException; HTTPStatusError carries the status of a non-2xx       *)
(* answer; "RequestError" stands for the RequestError classes that are     *)
(* neither ConnectError nor TimeoutException.                              *)
(***************************************************************************)

\* except (ConnectError, TimeoutException)
RetriedErrors == {"ConnectError", "ConnectTimeout", "ReadTimeout"}

\* sleep_time = 2 ** attempt
\* The same growing by one second a time.
sleep_time_linear(attempt) == attempt + 1

sleep_time(attempt) == 2 ^ attempt

\* The function has not returned.
Running == [running |-> TRUE]

\* The body of the loop after the response of an attempt: where the function goes
\* on and what it has returned.
\* The same with every failure retried as a connection failure is.
AfterAttempt_every_failure_retried(response, attempt, retries) ==
    IF response.kind = "ok"
    THEN [fpc |-> "returned", fetched |-> response.triple]
    ELSE IF attempt < retries - 1 THEN [fpc |-> "sleep", fetched |-> Running]
    ELSE [fpc |-> "returned", fetched |-> NoneRec]

AfterAttempt(response, attempt, retries) ==
    IF response.kind = "ok"
    THEN [fpc |-> "returned", fetched |-> response.triple]
    ELSE IF response.kind \in RetriedErrors
    THEN IF attempt < retries - 1 THEN [fpc |-> "sleep", fetched |-> Running]
         ELSE [fpc |-> "returned", fetched |-> NoneRec]
    ELSE [fpc |-> "returned", fetched |-> NoneRec]

(***************************************************************************)
(* SeokarAnalyzer (analyzer.py), constructed with url                      *)
(*                                                                         *)
(* fields holds the attributes that _fetch_and_parse_page assigns; _soup   *)
(* tells whether self._soup is set.  fetch_page_content is a coroutine     *)
(* function (network.py:8) and _fetch_and_parse_page calls it without      *)
(* awaiting it: the call makes a coroutine object, no request is sent, and *)
(* the object is neither None nor a triple.                                *)
(***************************************************************************)

\* utils.helpers.is_valid_url
is_valid_url(url) ==
    urlparse(url).scheme \in WebSchemes /\ urlparse(url).netloc # <<>>

\* The attributes after __init__(url=...).
NoFields ==
    [_html_content_bytes |-> NoneRec, _status_code |-> NoneInt,
     _response_headers |-> <<>>, _loading_time_ms |-> NoneRec, _soup |-> FALSE]

\* A server that answers a request with a status code, and one that gives no
\* response (httpx raises ConnectError or a TimeoutException).
StatusResponse(status_code) == [status_code |-> status_code]
NoResponse == [no_response |-> TRUE]

\* (end_time - start_time) * 1000: a time measured, above 0.
Elapsed == [elapsed |-> TRUE]

\* The branch `if cached_data:` and the parse after it.
ServedFromCache(cached_data) ==
    [_html_content_bytes |-> cached_data.content_bytes,
     _status_code |-> cached_data.status_code,
     _response_headers |-> cached_data.headers,
     _loading_time_ms |-> 0, _soup |-> TRUE]

\* What one lookup did: what the cache gave, how many coroutines of
\* fetch_page_content were made and whether the coroutine was run, what it
\* returned (Running when it was not run), what was stored in the cache, the
\* exception it ended with ("none" when it returned), the status_code that the
\* exception carries (NoneInt: no such attribute, or None), and the attributes
\* after it.
Lookup(cached_data, coroutines, raised, fields) ==
    [cached_data |-> cached_data, coroutines |-> coroutines, awaited |-> FALSE,
     fetched |-> Running, stored |-> NoneRec, raised |-> raised,
     status_code |-> NoneInt, fields |-> fields]

\* The else branch: the coroutine object is not None, so the branch
\* `if fetched_result is None` with its SeokarHTTPError is passed over and the
\* unpacking of fetched_result into three names raises TypeError, after
\* _loading_time_ms was assigned and before self._cache.set.
FetchedNotAwaited(_cache, fields) ==
    [raised |-> "TypeError",
     fields |-> [fields EXCEPT !._loading_time_ms = Elapsed],
     _cache |-> _cache,
     lookup |-> Lookup(NoneRec, 1, "TypeError",
                       [fields EXCEPT !._loading_time_ms = Elapsed])]

\* _fetch_and_parse_page from cached_data on, with what self._cache.get gave.
AfterCacheGet(cache_get, fields) ==
    IF cache_get.value # NoneRec
    THEN [raised |-> "none", fields |-> ServedFromCache(cache_get.value),
          _cache |-> cache_get._cache,
          lookup |-> Lookup(cache_get.value, 0, "none",
                            ServedFromCache(cache_get.value))]
    ELSE FetchedNotAwaited(cache_get._cache, fields)

\* SeokarAnalyzer._fetch_and_parse_page: the exception it raises, the attributes,
\* the cache and the lookup after it.
_fetch_and_parse_page(url, _cache, _ttl, now, fields) ==
    IF ~Truthy(url) \/ ~is_valid_url(url)
    THEN [raised |-> "SeokarError", fields |-> fields, _cache |-> _cache,
          lookup |-> NoneRec]
    ELSE AfterCacheGet(SimpleCache_get(_cache, _ttl, now, url), fields)

(***************************************************************************)
(* Seokar.get_all_links, statement by statement                            *)
(*                                                                         *)
(* Several threads call get_all_links() on one instance.  A step of a      *)
(* thread is one read or one assignment of self._all_links_cache, the      *)
(* entry or the exit of `with self._cache_lock`, or one call of            *)
(* _extract_links, which reads the tree only.                              *)
(***************************************************************************)

\* The thread that calls analyze(); the other threads are numbered from 1.
Analyst == 0

\* `if self._all_links_cache is None:`, outside the lock: where the thread goes on.
FirstCheck(_all_links_cache) ==
    IF _all_links_cache = NoneRec THEN "acquire" ELSE "return"

\* The same without the test: the thread that got the lock extracts in any case.
SecondCheck_left_out(_all_links_cache) == "extract"

\* `if self._all_links_cache is None:`, inside the lock.
SecondCheck(_all_links_cache) ==
    IF _all_links_cache = NoneRec THEN "extract" ELSE "release"

(***************************************************************************)
(* The pages analysed: Seokar(html_content, url)                           *)
(***************************************************************************)

\* Attribute values of the page's elements.
Robots_index_follow == <<"i","n","d","e","x",","," ","f","o","l","l","o","w">>
Robots_NoIndex_NoFollow == <<"N","o","I","n","d","e","x",","," ","N","o","F","o","l","l","o","w">>
Robots_commas == <<" ",","," ">>
Canonical_https_example_com == <<"h","t","t","p","s",":","/","/","e","x","a","m","p","l","e",".","c","o","m","/">>
Canonical_root == <<"/">>
Viewport_mobile == <<"w","i","d","t","h","=","d","e","v","i","c","e","-","w","i","d","t","h",","," ","i","n","i","t","i","a","l","-","s","c","a","l","e","=","1",".","0">>
Viewport_fixed == <<"w","i","d","t","h","=","1","0","2","4">>
Charset_UTF8 == <<"U","T","F","-","8">>
Charset_latin1 == <<"i","s","o","-","8","8","5","9","-","1">>
ContentType_utf8 == <<"t","e","x","t","/","h","t","m","l",";"," ","c","h","a","r","s","e","t","=","U","T","F","-","8">>
ContentType_plain == <<"t","e","x","t","/","h","t","m","l">>
Lang_en == <<"e","n">>
Favicon_png == <<"/","f","a","v",".","p","n","g">>
Href_about == <<"/","a","b","o","u","t">>
Href_fragment == <<"#","t","o","p">>

\* Heading elements.
Heading(level, length, words) == [level |-> level, length |-> length, words |-> words]
GoodHeadings == <<Heading(1, 20, 3), Heading(2, 30, 5)>>
BadHeadings == <<Heading(2, 80, 14), Heading(4, 10, 2)>>
EmptyH1Only == <<Heading(1, 0, 0)>>
EmptyH1ThenH2 == <<Heading(1, 0, 0), Heading(2, 30, 5)>>
TwoH1 == <<Heading(1, 20, 3), Heading(1, 71, 12)>>
H1ThenH3 == <<Heading(1, 70, 13), Heading(3, 10, 2)>>

\* Main content texts.
Text(chars, words, sentences, syllables) ==
    [chars |-> chars, words |-> words, sentences |-> sentences, syllables |-> syllables]
NoContent == Text(0, 0, 0, 0)
ShortContent == Text(40, 8, 1, 10)
FewWordsContent == Text(60, 4, 1, 12)
ThinContent == Text(200, 40, 4, 52)
GoodContent == Text(1200, 220, 20, 300)
HardContent == Text(1200, 200, 8, 340)
ThinHardContent == Text(200, 30, 1, 60)

\* Images.
Img(alt, decorative) == [alt |-> alt, decorative |-> decorative]
GoodImages == <<Img(10, FALSE)>>
BadImages ==
    <<Img(NoneInt, FALSE), Img(NoneInt, FALSE), Img(NoneInt, FALSE), Img(NoneInt, FALSE),
      Img(NoneInt, FALSE), Img(NoneInt, FALSE), Img(0, FALSE)>>
DecorativeImages == <<Img(0, TRUE), Img(125, FALSE)>>
UnmarkedImages == <<Img(0, FALSE), Img(0, TRUE)>>
LongAltImages == <<Img(126, FALSE)>>

\* Anchors.
AText(href, nofollow, text) == [href |-> href, nofollow |-> nofollow, text |-> text]
Text_About_us == <<"A","b","o","u","t"," ","u","s">>
A(href, nofollow) == AText(href, nofollow, Text_About_us)
InternalAnchors == <<A(Href_about, FALSE)>>
NoFollowAnchors == <<A(Href_about, TRUE), A(Ref_https_other_org, TRUE)>>
ExternalAnchors == <<A(Ref_https_other_org, FALSE)>>
SkippedAnchors == <<A(Ref_mailto, FALSE), A(Href_fragment, FALSE), A(Ref_blank, FALSE)>>
ManyExternalAnchors ==
    [i \in 1..22 |-> IF i = 1 THEN A(Href_about, FALSE) ELSE A(Ref_https_other_org, FALSE)]

\* Social tags.
TwitterAll == {"twitter:card", "twitter:title", "twitter:image"}

\* JSON-LD scripts.
Script(kind, items) == [kind |-> kind, items |-> items]
Item(is_dict) == [is_dict |-> is_dict]
OneObject == <<Script("object", <<Item(TRUE)>>)>>
BrokenScripts == <<Script("malformed", <<>>), Script("scalar", <<>>)>>
EmptyScript == <<Script("empty", <<>>)>>
MixedArray == <<Script("array", <<Item(TRUE), Item(FALSE), Item(TRUE)>>)>>
ArrayOfScalars == <<Script("array", <<Item(FALSE)>>), Script("malformed", <<>>)>>

\* A page that every check finds in order.
GoodPage ==
    [url |-> Url_https_example_com, base_href |-> NoneStr,
     title |-> 45, meta_description |-> 120, meta_robots |-> Robots_index_follow,
     canonical_href |-> Canonical_https_example_com, viewport |-> Viewport_mobile,
     meta_charset |-> Charset_UTF8, content_type |-> NoneStr, html_lang |-> Lang_en,
     favicon_href |-> Favicon_png, headings |-> GoodHeadings,
     content |-> GoodContent, html_length |-> 6000, images |-> GoodImages,
     anchors |-> InternalAnchors, og |-> required_og_tags, og_description |-> 150,
     twitter_name |-> TwitterAll,
     twitter_property |-> {}, json_ld |-> OneObject, microdata |-> 0, rdfa |-> 0]

\* A page that fails the checks: its findings cost more than 100 points.
BadPage ==
    [url |-> Url_https_example_com, base_href |-> NoneStr,
     title |-> NoneInt, meta_description |-> NoneInt,
     meta_robots |-> Robots_NoIndex_NoFollow,
     canonical_href |-> NoneStr, viewport |-> NoneStr,
     meta_charset |-> NoneStr, content_type |-> NoneStr, html_lang |-> NoneStr,
     favicon_href |-> NoneStr, headings |-> BadHeadings,
     content |-> ThinHardContent, html_length |-> 20000, images |-> BadImages,
     anchors |-> ExternalAnchors, og |-> {}, og_description |-> NoneInt,
     twitter_name |-> {"twitter:title"},
     twitter_property |-> {}, json_ld |-> BrokenScripts, microdata |-> 0, rdfa |-> 0]

Fields == DOMAIN GoodPage

\* The values a field takes.
FieldValues(f) ==
    CASE f = "url" -> {NoneStr, Url_https_example_com, Url_no_scheme}
      [] f = "base_href" -> {NoneStr, Base_https_b_com_dir}
      [] f = "title" -> {NoneInt, 0, 29, 30, 45, 60, 61}
      [] f = "meta_description" -> {NoneInt, 0, 69, 70, 120, 160, 161}
      [] f = "meta_robots" ->
             {NoneStr, Robots_index_follow, Robots_NoIndex_NoFollow, Robots_commas}
      [] f = "canonical_href" ->
             {NoneStr, Canonical_https_example_com, Ref_https_example_com_page,
              Canonical_root}
      [] f = "viewport" -> {NoneStr, Viewport_mobile, Viewport_fixed, Ref_blank}
      [] f = "meta_charset" -> {NoneStr, Charset_UTF8, Charset_latin1, Ref_blank}
      [] f = "content_type" -> {NoneStr, ContentType_utf8, ContentType_plain}
      [] f = "html_lang" -> {NoneStr, Lang_en, Ref_blank}
      [] f = "favicon_href" -> {NoneStr, Favicon_png, Ref_p_html}
      [] f = "headings" ->
             {<<>>, GoodHeadings, BadHeadings, EmptyH1Only, EmptyH1ThenH2, TwoH1,
              H1ThenH3}
      [] f = "content" ->
             {NoContent, ShortContent, FewWordsContent, ThinContent, GoodContent,
              HardContent, ThinHardContent}
      [] f = "html_length" -> {6000, 20000}
      [] f = "images" ->
             {<<>>, GoodImages, BadImages, DecorativeImages, UnmarkedImages,
              LongAltImages}
      [] f = "anchors" ->
             {<<>>, InternalAnchors, NoFollowAnchors, ExternalAnchors, SkippedAnchors,
              ManyExternalAnchors}
      [] f = "og" -> {{}, required_og_tags, {"og:title"}}
      [] f = "og_description" -> {NoneInt, 0, 150}
      [] f = "twitter_name" -> {{}, TwitterAll, {"twitter:title"}, {"twitter:card"}}
      [] f = "twitter_property" -> {{}, {"twitter:card"}}
      [] f = "json_ld" ->
             {<<>>, OneObject, BrokenScripts, EmptyScript, MixedArray, ArrayOfScalars}
      [] f = "microdata" -> {0, 1}
      [] f = "rdfa" -> {0, 2}

\* Most fields in which a page differs from GoodPage or from BadPage.
MaxDeviations == 1

\* The pages with one more field changed.
Deviate(pages) ==
    pages \cup UNION {{[p EXCEPT ![f] = v] : v \in FieldValues(f)} :
                         <<p, f>> \in pages \X Fields}

RECURSIVE PagesWithin(_)
PagesWithin(n) == IF n = 0 THEN {GoodPage, BadPage} ELSE Deviate(PagesWithin(n - 1))

Pages == PagesWithin(MaxDeviations)

\* The parsed markup of a page: the page without its source address.
DocOf(page) == [f \in Fields \ {"url"} |-> page[f]]

(***************************************************************************)
(* SeokarAnalyzer._analyze_technical_issues: the mixed content check, and  *)
(* the page with two H1 elements, no description, noindex and nofollow     *)
(* and one image fetched over http                                         *)
(***************************************************************************)

\* TechnicalIssues.MIXED_CONTENT
MIXED_CONTENT == "Mixed Content (HTTP resources on HTTPS page)"

\* An <img> element with a src attribute.
ImgFrom(alt, decorative, src) == [alt |-> alt, decorative |-> decorative, src |-> src]

\* src_or_href and src_or_href.lower().startswith("http://"): an element without
\* the attribute has no such field.
IsHttpResource(tag) ==
    /\ "src" \in DOMAIN tag
    /\ Truthy(tag.src)
    /\ StartsWith(Lower(tag.src), <<"h","t","t","p",":","/","/">>)

\* The mixed content check that ends _analyze_technical_issues: one entry for the
\* first element found with an http source, on a page of an https address.
MixedContentIssue(issues, _url, doc) ==
    IF /\ Truthy(_url)
       /\ StartsWith(_url, <<"h","t","t","p","s",":","/","/">>)
       /\ \E i \in DOMAIN doc.images : IsHttpResource(doc.images[i])
    THEN Append(issues, MIXED_CONTENT)
    ELSE issues

MixedContentPage ==
    [BadPage EXCEPT !.headings = TwoH1,
                    !.images = <<ImgFrom(10, FALSE, Ref_http_b_com_dir_p)>>]

(***************************************************************************)
(* SeokarAnalyzer: the tree self._soup and the analyzers that read or      *)
(* change it                                                               *)
(*                                                                         *)
(* The tree is the sequence of its elements in document order.  An element *)
(* has its tag name, the part of the document it is in (head or body), the *)
(* tag name of the element of the body that encloses it ("none" when it is *)
(* a child of the body), what json.loads gives for its string when it is a *)
(* script of type application/ld+json, and the number of words of its text.*)
(***************************************************************************)

Node(name, part, within, ld, words) ==
    [name |-> name, part |-> part, within |-> within, ld |-> ld, words |-> words]

\* The tag names that _extract_page_main_content removes from the body.
RemovedFromBody ==
    {"nav", "footer", "header", "aside", "form", "script", "style", "noscript", "meta",
     "link"}

\* Whether body_tag.find_all([...]) with tag.decompose() removes the element: it is
\* such a tag, or it is inside one.
IsDecomposed(element) ==
    /\ element.part = "body"
    /\ (element.name \in RemovedFromBody \/ element.within \in RemovedFromBody)

IsKept(element) == ~IsDecomposed(element)

\* self._soup after _extract_page_main_content, which works on the tree itself.
TreeAfterExtraction(soup) == SelectSeq(soup, IsKept)

IsBodyText(element) == element.part = "body" /\ IsKept(element)

RECURSIVE WordsFrom(_, _)
WordsFrom(soup, i) ==
    IF i > Len(soup) THEN 0
    ELSE (IF IsBodyText(soup[i]) THEN soup[i].words ELSE 0) + WordsFrom(soup, i + 1)

\* _analyze_content_metrics: None under 50 words, else the metrics, of which the
\* word count is kept here.
_analyze_content_metrics(soup) ==
    IF WordsFrom(soup, 1) < 50 THEN NoneRec ELSE [word_count |-> WordsFrom(soup, 1)]

\* What json.loads gives: a dict with '@context' == SchemaUrls.JSON_LD_CONTEXT and
\* '@type' ("object"), a list with such a dict ("array"), a dict without '@type'
\* ("no_type"), or JSONDecodeError ("malformed").
LooksValid(element) ==
    element.name = "script" /\ element.ld \in {"object", "array"}

\* _analyze_schema_markup: True when some script of type application/ld+json of
\* the tree looks valid.
_analyze_schema_markup(soup) ==
    \E i \in DOMAIN soup : LooksValid(soup[i])

IsH1(element) == element.name = "h1" /\ element.words > 0

RECURSIVE H1HeadingsFrom(_, _)
H1HeadingsFrom(soup, i) ==
    IF i > Len(soup) THEN <<>>
    ELSE (IF IsH1(soup[i]) THEN <<Heading(1, 5 * soup[i].words, soup[i].words)>> ELSE <<>>)
         \o H1HeadingsFrom(soup, i + 1)

\* What the getters of _analyze_technical_issues find in the tree.  The pages of
\* this tree have a title and a description in the head, and neither a canonical
\* link nor a robots directive.
DocView(soup) ==
    [title |-> 45, meta_description |-> 120, og_description |-> NoneInt,
     headings |-> H1HeadingsFrom(soup, 1), canonical_href |-> NoneStr,
     meta_robots |-> NoneStr]

(***************************************************************************)
(* Seokar.__init__ and SeokarAnalyzer.__init__                             *)
(*                                                                         *)
(* The argument html_content is any Python value: None, an int or a str.   *)
(* The argument url is a str or None.                                      *)
(***************************************************************************)

NoneValue == [type |-> "NoneType"]
IntValue(n) == [type |-> "int", int |-> n]
StrValue(s) == [type |-> "str", str |-> s]

\* bool(value)
IsTrue(value) ==
    CASE value.type = "NoneType" -> FALSE
      [] value.type = "int" -> value.int # 0
      [] value.type = "str" -> value.str # <<>>

\* How a constructor ends: the exception raised and no instance, or the instance.
Rejected(error) == [raised |-> error, instance |-> NoneRec]
Made(instance) == [raised |-> "none", instance |-> instance]

\* Seokar.__init__
Seokar_init(html_content, url) ==
    IF html_content.type # "str" THEN Rejected("TypeError")
    ELSE IF Strip(html_content.str) = <<>> THEN Rejected("ValueError")
    ELSE Made([class |-> "Seokar", url |-> InitUrl(url), soup |-> TRUE])

\* SeokarAnalyzer.__init__ from `self._url = url` on: the branch `if html_content:`
\* parses the markup, and html_content.encode is an attribute of str only; a falsy
\* html_content leaves self._soup and self._status_code at None.
SeokarAnalyzer_attributes(url, html_content) ==
    IF ~IsTrue(html_content)
    THEN Made([class |-> "SeokarAnalyzer", url |-> url, soup |-> FALSE])
    ELSE IF html_content.type = "str"
    THEN Made([class |-> "SeokarAnalyzer", url |-> url, soup |-> TRUE])
    ELSE Rejected("AttributeError")

\* SeokarAnalyzer.__init__
SeokarAnalyzer_init(url, html_content) ==
    IF url = NoneStr /\ html_content = NoneValue THEN Rejected("ValueError")
    ELSE IF url # NoneStr /\ html_content # NoneValue THEN Rejected("ValueError")
    ELSE SeokarAnalyzer_attributes(url, html_content)

\* How analyze() called on an instance ends.  Seokar.analyze returns its report.
\* SeokarAnalyzer.analyze fetches when it has an address and no tree, raises
\* SeokarError when it has no tree after that, and with a tree goes on to
\* _analyze_technical_issues.
AnalyzeEnds(instance) ==
    IF instance.class = "Seokar" THEN "report"
    ELSE IF Truthy(instance.url) /\ ~instance.soup
    THEN _fetch_and_parse_page(instance.url, <<>>, DefaultTtl, 0, NoFields).raised
    ELSE IF ~instance.soup THEN "SeokarError"
    ELSE IF "BAD_REQUEST" \in StatusCodeAttributes THEN "report"
    ELSE "AttributeError"

(***************************************************************************)
(* State                                                                   *)
(***************************************************************************)

VARIABLES
    doc,             \* the parsed markup (self.soup), as the analyzers read it
    url,             \* self.url: the source address, NoneStr when none is kept
    ucall,           \* the resolver method called last: "none", "resolve", "classify"
    href,            \* its argument, when it was _make_absolute_url
    resolved,        \* what _make_absolute_url returned
    effective_base,  \* the local effective_base_url of that call (NoneStr if not reached)
    candidate,       \* its argument, when it was _is_internal_url
    internal,        \* what _is_internal_url returned
    results,         \* self._results
    health,          \* what _calculate_seo_health_score returned last, NoneRec before
    pc,              \* where analyze() stands: "idle" outside a call, else its next step
    cache,           \* the cache attributes of the instance
    building,        \* the local dict report of analyze(), NoneRec outside a call
    report,          \* what analyze() returned last, NoneRec before
    prev_report,     \* what analyze() returned the time before, NoneRec before
    passes,          \* how many calls of analyze() have returned
    apc,             \* where SeokarAnalyzer.analyze() stands: "idle" outside a call
    alocals,         \* the local variables of SeokarAnalyzer.analyze(), NoneRec outside
    outcomes,        \* how the calls of SeokarAnalyzer.analyze() ended, in order
    microdata,       \* what get_microdata() returned last, NoneRec before
    rdfa,            \* what get_rdfa_data() returned last, NoneRec before
    text,            \* the text whose keyword density is asked for
    density,         \* the last keyword density call and what it returned, NoneRec before
    _cache,          \* SimpleCache._cache: key -> (value, timestamp)
    _ttl,            \* SimpleCache._ttl, in seconds
    now,             \* datetime.now(), in seconds
    got,             \* the last SimpleCache.get: its key and what it returned, NoneRec before
    last_set,        \* for each key, the value and the time of its last SimpleCache.set
    fpc,             \* where fetch_page_content stands: "loop", "sleep", "returned"
    retries,         \* its parameter retries
    attempt,         \* its loop variable
    responses,       \* what each of its attempts gave, in order
    sleeps,          \* the arguments of its calls of asyncio.sleep, in order
    fetched,         \* what it returned, Running before
    fields,          \* the attributes of a SeokarAnalyzer made with url
    lookups,         \* what each _fetch_and_parse_page that reached the cache did
    network,         \* how the server of the address answers a request
    tpc,             \* for each thread, where it stands in get_all_links() or analyze()
    lock,            \* the thread that holds self._cache_lock, NoneInt when it is free
    extracted,       \* for each thread, what its call of _extract_links returned
    extractions,     \* how many calls of _extract_links were made
    writes,          \* the assignments to self._all_links_cache: who, holding the lock?
    returns,         \* what the calls of get_all_links() returned, in order
    soup,            \* self._soup of a SeokarAnalyzer whose methods are called one by one
    calls,           \* those calls in order: the method and what it returned
    constructed,     \* the constructor calls in order: class, arguments and outcome
    started          \* the calls of analyze() on the instances made: which, how it ended

urlVars == <<ucall, href, resolved, effective_base, candidate, internal>>
scoreVars == <<results, health>>
analysisVars == <<pc, cache, building, report, prev_report, passes>>
analyzerVars == <<apc, alocals, outcomes>>
structVars == <<microdata, rdfa>>
densityVars == <<text, density>>
cacheVars == <<_cache, _ttl, now, got, last_set>>
fetchVars == <<fpc, retries, attempt, responses, sleeps, fetched>>
pageVars == <<fields, lookups, network>>
threadVars == <<tpc, lock, extracted, extractions, writes, returns>>
orderVars == <<soup, calls>>
initVars == <<constructed, started>>
utilVars ==
    <<structVars, densityVars, cacheVars, fetchVars, pageVars, threadVars, orderVars, initVars>>
exceptStruct ==
    <<densityVars, cacheVars, fetchVars, pageVars, threadVars, orderVars, initVars>>
exceptDensity ==
    <<structVars, cacheVars, fetchVars, pageVars, threadVars, orderVars, initVars>>
exceptCache ==
    <<structVars, densityVars, fetchVars, pageVars, threadVars, orderVars, initVars>>
exceptFetch ==
    <<structVars, densityVars, cacheVars, pageVars, threadVars, orderVars, initVars>>
exceptCacheAndPage == <<structVars, densityVars, fetchVars, threadVars, orderVars, initVars>>
exceptThread ==
    <<structVars, densityVars, cacheVars, fetchVars, pageVars, orderVars, initVars>>
exceptOrder ==
    <<structVars, densityVars, cacheVars, fetchVars, pageVars, threadVars, initVars>>
exceptInit ==
    <<structVars, densityVars, cacheVars, fetchVars, pageVars, threadVars, orderVars>>
seokarVars == <<urlVars, scoreVars, analysisVars, analyzerVars>>
vars == <<doc, url, urlVars, scoreVars, analysisVars, analyzerVars, utilVars>>

\* No resolver method has been called.
NoUrlCall ==
    /\ ucall = "none"
    /\ href = NoneStr
    /\ resolved = NoneStr
    /\ effective_base = NoneStr
    /\ candidate = NoneStr
    /\ internal = FALSE

\* The keys of self._meta_tags_cache that the getters of _analyze_basic_seo fill.
MetaKeys ==
    {"title_text", "meta_description_content", "meta_robots_directives",
     "canonical_url", "viewport_content", "charset", "html_lang", "favicon_url"}

\* The cache attributes as __init__ and _reset_analysis_state leave them.  A cache is
\* NoneRec or Cached(value); meta holds the keys of self._meta_tags_cache, whose
\* values are what the getters compute from the markup.
EmptyCache ==
    [meta |-> {}, all_headings |-> NoneRec, all_links |-> NoneRec,
     main_content_text |-> NoneRec, all_images |-> NoneRec, json_ld |-> NoneRec]

\* if self._x_cache is None: self._x_cache = v
Filled(c, v) == IF c = NoneRec THEN Cached(v) ELSE c

\* SeokarAnalyzer.analyze() has never been called.
NoAnalyzerCall ==
    /\ apc = "idle"
    /\ alocals = NoneRec
    /\ outcomes = <<>>

\* Neither get_microdata() nor get_rdfa_data() has been called.
NoStructCall ==
    /\ microdata = NoneRec
    /\ rdfa = NoneRec

\* Nothing outside the two analyzer classes has run.
\* Neither keyword density function has been called.
NoDensityCall ==
    /\ text = <<>>
    /\ density = NoneRec

\* SimpleCache(): nothing is held, the clock is at 0.
NoCacheCall ==
    /\ _cache = <<>>
    /\ _ttl = DefaultTtl
    /\ now = 0
    /\ got = NoneRec
    /\ last_set = <<>>

\* fetch_page_content has not been awaited.
NoFetchCall ==
    /\ fpc = "returned"
    /\ retries = 0
    /\ attempt = 0
    /\ responses = <<>>
    /\ sleeps = <<>>
    /\ fetched = NoneRec

\* No SeokarAnalyzer was made with url.
NoPageCall ==
    /\ fields = NoFields
    /\ lookups = <<>>
    /\ network = NoResponse

\* One thread only uses the instance.
NoThreadCall ==
    /\ tpc = <<>>
    /\ lock = NoneInt
    /\ extracted = <<>>
    /\ extractions = 0
    /\ writes = <<>>
    /\ returns = <<>>

\* No method of a SeokarAnalyzer is called on its own.
NoOrderCall ==
    /\ soup = <<>>
    /\ calls = <<>>

\* The one instance of the specification is made; no other constructor call is
\* followed.
NoInitCall ==
    /\ constructed = <<>>
    /\ started = <<>>

NoUtilCalls ==
    /\ NoStructCall /\ NoDensityCall /\ NoCacheCall /\ NoFetchCall /\ NoPageCall
    /\ NoThreadCall /\ NoOrderCall /\ NoInitCall

\* analyze() has never been called and no getter has run.
NoAnalysis ==
    /\ pc = "idle"
    /\ cache = EmptyCache
    /\ building = NoneRec
    /\ report = NoneRec
    /\ prev_report = NoneRec
    /\ passes = 0

(***************************************************************************)
(* SpecUrl: one instance, any calls of the two resolver methods            *)
(***************************************************************************)

InitUrlSpec ==
    /\ \E b \in BaseHrefs : doc = [base_href |-> b]
    /\ \E u \in UrlInputs : url = InitUrl(u)
    /\ NoUrlCall
    /\ results = <<>>
    /\ health = NoneRec
    /\ NoAnalysis
    /\ NoAnalyzerCall
    /\ NoUtilCalls

MakeAbsoluteUrl(h) ==
    /\ ucall' = "resolve"
    /\ href' = h
    /\ resolved' = _make_absolute_url(doc.base_href, url, h)
    /\ effective_base' = IF ReturnsEarly(h) THEN NoneStr
                         ELSE effective_base_url(doc.base_href, url)
    /\ candidate' = NoneStr
    /\ internal' = FALSE
    /\ UNCHANGED <<doc, url, scoreVars, analysisVars, analyzerVars, utilVars>>

IsInternalUrl(c) ==
    /\ ucall' = "classify"
    /\ candidate' = c
    /\ internal' = _is_internal_url(url, c)
    /\ href' = NoneStr
    /\ resolved' = NoneStr
    /\ effective_base' = NoneStr
    /\ UNCHANGED <<doc, url, scoreVars, analysisVars, analyzerVars, utilVars>>

NextUrl ==
    \/ \E h \in Hrefs : MakeAbsoluteUrl(h)
    \/ \E c \in Candidates : IsInternalUrl(c)

SpecUrl == InitUrlSpec /\ [][NextUrl]_vars

(***************************************************************************)
(* SpecScore: results added one by one, the health score taken at any time *)
(***************************************************************************)

\* Most CRITICAL results already in the list at the start, and most results added.
MaxCritical == 10
MaxAdd == 2

\* A list of n CRITICAL results, as n calls of _add_result leave it.
RECURSIVE CriticalResults(_)
CriticalResults(n) ==
    IF n = 0 THEN <<>>
    ELSE _add_result(CriticalResults(n - 1), CRITICAL, "Missing Title Tag", "Title",
                     <<>>, Rec_MissingTitleTag)

\* The recommendation argument of _add_result: None, '', a text.
RecommendationArgs == {NoneStr, <<>>, Rec_TitleTooShort}

InitScore ==
    /\ doc = [base_href |-> NoneStr]
    /\ url = NoneStr
    /\ NoUrlCall
    /\ \E n \in 0..MaxCritical : results = CriticalResults(n)
    /\ health = NoneRec
    /\ NoAnalysis
    /\ NoAnalyzerCall
    /\ NoUtilCalls

\* How many results of the list were added after the start.
Added == Cardinality({i \in DOMAIN results : results[i].message = "Probe"})

AddResult(level, recommendation) ==
    /\ Added < MaxAdd
    /\ results' = _add_result(results, level, "Probe", "Probe", <<>>, recommendation)
    /\ UNCHANGED <<doc, url, urlVars, health, analysisVars, analyzerVars, utilVars>>

CalculateSeoHealthScore ==
    /\ health' = _calculate_seo_health_score(results)
    /\ UNCHANGED <<doc, url, urlVars, results, analysisVars, analyzerVars, utilVars>>

NextScore ==
    \/ \E level \in SEOResultLevel, r \in RecommendationArgs : AddResult(level, r)
    \/ CalculateSeoHealthScore

SpecScore == InitScore /\ [][NextScore]_vars

(***************************************************************************)
(* Spec: one Seokar instance, analyze() called again and again, the public *)
(* getters get_json_ld_data and get_all_links called between the calls     *)
(***************************************************************************)

\* Most calls of analyze() on the instance.
MaxPasses == 2

\* __version__
Version == "1.0.0"

Init ==
    /\ \E page \in Pages : doc = DocOf(page) /\ url = InitUrl(page.url)
    /\ NoUrlCall
    /\ results = <<>>
    /\ health = NoneRec
    /\ NoAnalysis
    /\ NoAnalyzerCall
    /\ NoUtilCalls

\* analyze(): self._reset_analysis_state() and the first two entries of report.
Analyze ==
    /\ pc = "idle"
    /\ passes < MaxPasses
    /\ results' = <<>>
    /\ cache' = EmptyCache
    /\ building' = [analyzer_version |-> Version, url |-> url]
    /\ pc' = "basic_seo"
    /\ UNCHANGED <<doc, url, urlVars, health, report, prev_report, passes, analyzerVars, utilVars>>

\* report with one more entry
With(rep, key, value) ==
    [k \in DOMAIN rep \cup {key} |-> IF k = key THEN value ELSE rep[k]]

\* "basic_seo": self._analyze_basic_seo()
AnalyzeBasicSeo ==
    /\ pc = "basic_seo"
    /\ results' = BasicSeoResults(results, doc, url)
    /\ cache' = [cache EXCEPT !.meta = @ \cup MetaKeys]
    /\ building' = With(building, "basic_seo", BasicSeoReport(doc, url))
    /\ pc' = "headings"
    /\ UNCHANGED <<doc, url, urlVars, health, report, prev_report, passes, analyzerVars, utilVars>>

\* "headings": self._analyze_headings_structure()
AnalyzeHeadingsStructure ==
    /\ pc = "headings"
    /\ results' = HeadingsResults(results, doc)
    /\ cache' = [cache EXCEPT !.all_headings = Filled(@, get_all_headings(doc))]
    /\ building' = With(building, "headings", HeadingsReport(doc))
    /\ pc' = "content_quality"
    /\ UNCHANGED <<doc, url, urlVars, health, report, prev_report, passes, analyzerVars, utilVars>>

\* "content_quality": self._analyze_content_quality()
AnalyzeContentQuality ==
    /\ pc = "content_quality"
    /\ results' = ContentResults(results, doc)
    /\ cache' = [cache EXCEPT !.main_content_text = Filled(@, get_main_content_text(doc))]
    /\ building' = With(building, "content_quality", ContentReport(doc))
    /\ pc' = "images"
    /\ UNCHANGED <<doc, url, urlVars, health, report, prev_report, passes, analyzerVars, utilVars>>

\* "images": self._analyze_images_alt_text()
AnalyzeImagesAltText ==
    /\ pc = "images"
    /\ results' = ImagesResults(results, doc)
    /\ cache' = [cache EXCEPT !.all_images = Filled(@, get_all_images(doc))]
    /\ building' = With(building, "images", ImagesReport(doc))
    /\ pc' = "links"
    /\ UNCHANGED <<doc, url, urlVars, health, report, prev_report, passes, analyzerVars, utilVars>>

\* "links": self._analyze_page_links(), which reads get_all_links()
AnalyzePageLinks ==
    /\ pc = "links"
    /\ cache' = [cache EXCEPT !.all_links = Filled(@, _extract_links(doc, url))]
    /\ results' = LinksResultsOf(results, cache'.all_links.value, url)
    /\ building' = With(building, "links", LinksReportOf(cache'.all_links.value, url))
    /\ pc' = "social_media_tags"
    /\ UNCHANGED <<doc, url, urlVars, health, report, prev_report, passes, analyzerVars, utilVars>>

\* "social_media_tags": self._get_social_media_tags_data()
GetSocialMediaTagsData ==
    /\ pc = "social_media_tags"
    /\ results' = SocialResults(results, doc)
    /\ building' = With(building, "social_media_tags", SocialReport(doc))
    /\ pc' = "structured_data"
    /\ UNCHANGED <<doc, url, urlVars, health, cache, report, prev_report, passes, analyzerVars, utilVars>>

\* "structured_data": self._get_all_structured_data_info()
GetAllStructuredDataInfo ==
    /\ pc = "structured_data"
    /\ results' = StructuredData(cache.json_ld, results, doc).results
    /\ cache' = [cache EXCEPT
                   !.json_ld = Cached(StructuredData(cache.json_ld, results, doc).cache)]
    /\ building' = With(building, "structured_data",
                        StructuredDataReport(cache'.json_ld.value, doc))
    /\ pc' = "seo_health"
    /\ UNCHANGED <<doc, url, urlVars, health, report, prev_report, passes, analyzerVars, utilVars>>

\* The report that analyze() returns: the entries seo_health, issues and
\* recommendations added to the local dict.  res.__dict__ of a result is the record.
Returned(rep, res) ==
    With(With(With(rep, "seo_health", _calculate_seo_health_score(res)),
              "issues", res),
         "recommendations", _get_all_actionable_recommendations(res))

\* The last three statements of analyze() and its return.
Return ==
    /\ pc = "seo_health"
    /\ report' = Returned(building, results)
    /\ prev_report' = report
    /\ passes' = passes + 1
    /\ building' = NoneRec
    /\ pc' = "idle"
    /\ UNCHANGED <<doc, url, urlVars, scoreVars, cache, analyzerVars, utilVars>>

\* A call of the public get_json_ld_data() outside analyze().
GetJsonLdData ==
    /\ pc = "idle"
    /\ results' = get_json_ld_data(cache.json_ld, results, doc).results
    /\ cache' = [cache EXCEPT
                   !.json_ld = Cached(get_json_ld_data(cache.json_ld, results, doc).cache)]
    /\ UNCHANGED <<doc, url, urlVars, health, pc, building, report, prev_report, passes, analyzerVars, utilVars>>

\* A call of the public get_all_links() outside analyze().
GetAllLinks ==
    /\ pc = "idle"
    /\ cache' = [cache EXCEPT !.all_links = Filled(@, _extract_links(doc, url))]
    /\ UNCHANGED <<doc, url, urlVars, scoreVars, pc, building, report, prev_report, passes, analyzerVars, utilVars>>

Next ==
    \/ Analyze
    \/ AnalyzeBasicSeo
    \/ AnalyzeHeadingsStructure
    \/ AnalyzeContentQuality
    \/ AnalyzeImagesAltText
    \/ AnalyzePageLinks
    \/ GetSocialMediaTagsData
    \/ GetAllStructuredDataInfo
    \/ Return
    \/ GetJsonLdData
    \/ GetAllLinks

Spec == Init /\ [][Next]_vars

(***************************************************************************)
(* SpecAnalyzer: one SeokarAnalyzer instance, analyze() called again and   *)
(* again                                                                   *)
(***************************************************************************)

\* Most calls of analyze() on the instance.
MaxAnalyzerCalls == 2

InitAnalyzer ==
    /\ \E page \in Pages : doc = DocOf(page)
    /\ url = NoneStr
    /\ NoUrlCall
    /\ results = <<>>
    /\ health = NoneRec
    /\ NoAnalysis
    /\ NoAnalyzerCall
    /\ NoUtilCalls

\* analyze() up to its call of _analyze_technical_issues: the tree is there, nothing
\* is fetched, and the five getters fill the locals.
AnalyzerAnalyze ==
    /\ apc = "idle"
    /\ Len(outcomes) < MaxAnalyzerCalls
    /\ alocals' = [title |-> _get_title(doc),
                   meta_description |-> _get_meta_description(doc),
                   h1_tags |-> _get_h1_tags(doc),
                   canonical_url |-> _get_canonical_url(doc),
                   robots_tag |-> _get_robots_tag(doc)]
    /\ apc' = "technical_issues"
    /\ UNCHANGED <<doc, url, urlVars, scoreVars, analysisVars, outcomes, utilVars>>

\* technical_issues = self._analyze_technical_issues(): the exception it raises
\* leaves analyze(), which returns no report.
AnalyzerTechnicalIssuesRaises ==
    /\ apc = "technical_issues"
    /\ _analyze_technical_issues(doc).raised # "none"
    /\ outcomes' = Append(outcomes, [raised |-> _analyze_technical_issues(doc).raised,
                                     report |-> NoneRec])
    /\ alocals' = NoneRec
    /\ apc' = "idle"
    /\ UNCHANGED <<doc, url, urlVars, scoreVars, analysisVars, utilVars>>

NextAnalyzer ==
    \/ AnalyzerAnalyze
    \/ AnalyzerTechnicalIssuesRaises

SpecAnalyzer == InitAnalyzer /\ [][NextAnalyzer]_vars

\* C1: two calls of analyze() in a row on one instance both return a report, and the
\* two reports show the same findings, technical issues, schema flag, metrics and
\* score.
C1_TwoCallsInARowSameReport ==
    Len(outcomes) >= 2 =>
        /\ outcomes[1].raised = "none"
        /\ outcomes[2].raised = "none"
        /\ outcomes[1].report = outcomes[2].report

(***************************************************************************)
(* SpecLinks: one Seokar instance over a page of anchors, get_all_links()  *)
(* called on it                                                            *)
(***************************************************************************)

\* Most <a href> elements of a page.
MaxAnchors == 2

\* The hrefs of the anchors, the base declarations and the url arguments.
LinkHrefs ==
    {Ref_up_another, Ref_p_html, Ref_root_y, Ref_protocol_relative, Ref_https_other_org,
     Ref_https_example_com_page, Ref_mailto, Ref_hash, Ref_blank}
LinkBases == {NoneStr, Base_https_base_example_com_folder, Base_https_b_com_dir, Base_sub}
LinkUrls == {NoneStr, Url_https_original_example_com, Url_https_example_com, Url_no_scheme}

\* The lists of at most n anchors.
AnchorLists(n) ==
    UNION {[1..k -> {A(h, FALSE) : h \in LinkHrefs}] : k \in 0..n}

InitLinks ==
    /\ \E b \in LinkBases, a_tags \in AnchorLists(MaxAnchors) :
           doc = [base_href |-> b, anchors |-> a_tags]
    /\ \E u \in LinkUrls : url = InitUrl(u)
    /\ NoUrlCall
    /\ results = <<>>
    /\ health = NoneRec
    /\ NoAnalysis
    /\ NoAnalyzerCall
    /\ NoUtilCalls

NextLinks == GetAllLinks

SpecLinks == InitLinks /\ [][NextLinks]_vars

(***************************************************************************)
(* SpecStructured: one Seokar instance over a tree of scoped elements and  *)
(* property elements, get_microdata() and get_rdfa_data() called on it     *)
(***************************************************************************)

\* Most elements of a page.
MaxElements == 4

\* What an element is: neither, a scoped element, a property element with a value,
\* a property element without one (a link without href), or a scoped element that is
\* a property of the item around it.
Kinds == {"plain", "scope", "prop", "prop_no_value", "scope_prop"}

\* The types declared, one for each position in the page.
TypeAt(i) == <<"Type", i>>

Element(parent, kind, i) ==
    [parent |-> parent,
     scope |-> kind \in {"scope", "scope_prop"},
     prop |-> kind \in {"prop", "prop_no_value", "scope_prop"},
     names |-> CASE kind = "prop" -> <<"name">>
                 [] kind = "prop_no_value" -> <<"url">>
                 [] kind = "scope_prop" -> <<"child">>
                 [] OTHER -> <<>>,
     valued |-> kind # "prop_no_value",
     type |-> TypeAt(i)]

\* The elements still open after the last element of a page: where the next element
\* in document order can be a child.
RECURSIVE OpenFrom(_, _)
OpenFrom(elements, i) ==
    IF i = 0 THEN {0} ELSE {i} \cup OpenFrom(elements, elements[i].parent)

\* The pages of at most n elements.
RECURSIVE Trees(_)
Trees(n) ==
    IF n = 0 THEN {<<>>}
    ELSE Trees(n - 1) \cup
         {Append(t, Element(p, k, n)) :
             t \in {s \in Trees(n - 1) : Len(s) = n - 1},
             p \in 0..(n - 1), k \in Kinds}

\* The element order is the document order: a child follows an open element.
InDocumentOrder(elements) ==
    \A i \in DOMAIN elements : elements[i].parent \in OpenFrom(elements, i - 1)

InitStructured ==
    /\ \E elements \in Trees(MaxElements) :
           /\ InDocumentOrder(elements)
           /\ doc = [elements |-> elements]
    /\ url = NoneStr
    /\ NoUrlCall
    /\ results = <<>>
    /\ health = NoneRec
    /\ NoAnalysis
    /\ NoAnalyzerCall
    /\ NoUtilCalls

GetMicrodata ==
    /\ microdata' = Cached(MicrodataItems(doc.elements, 1, <<>>))
    /\ UNCHANGED <<doc, url, seokarVars, rdfa, exceptStruct>>

GetRdfaData ==
    /\ rdfa' = Cached(RdfaItems(doc.elements, 1, <<>>))
    /\ UNCHANGED <<doc, url, seokarVars, microdata, exceptStruct>>

NextStructured ==
    \/ GetMicrodata
    \/ GetRdfaData

SpecStructured == InitStructured /\ [][NextStructured]_vars

(***************************************************************************)
(* SpecJsonLd: one Seokar instance over a page with any JSON-LD scripts,   *)
(* analyze() and the public getters called on it                           *)
(***************************************************************************)

\* The most JSON-LD scripts of a page.
MaxScripts == 3

\* What the text of a script is: nothing or white space, text that json.loads
\* rejects, a JSON scalar, a JSON object, a JSON array.
ScriptKinds == {"empty", "malformed", "scalar", "object", "array"}

\* A JSON object, told from the others of the page by id.
JsonObject(id) == [is_dict |-> TRUE, id |-> id]
JsonScalar == [is_dict |-> FALSE, id |-> 0]

\* The i-th script of a page: an object script holds one object, an array script
\* two objects with a scalar between them.
ScriptAt(kind, i) ==
    IF kind = "object" THEN Script(kind, <<JsonObject(2 * i - 1)>>)
    ELSE IF kind = "array"
    THEN Script(kind, <<JsonObject(2 * i - 1), JsonScalar, JsonObject(2 * i)>>)
    ELSE Script(kind, <<>>)

RECURSIVE ScriptLists(_)
ScriptLists(n) ==
    IF n = 0 THEN {<<>>}
    ELSE ScriptLists(n - 1)
         \cup {Append(scripts, ScriptAt(kind, n)) :
                   scripts \in {l \in ScriptLists(n - 1) : Len(l) = n - 1},
                   kind \in ScriptKinds}

\* Seokar(html_content, url) on a page in order but for its JSON-LD scripts.
InitJsonLd ==
    /\ \E scripts \in ScriptLists(MaxScripts) :
           doc = [DocOf(GoodPage) EXCEPT !.json_ld = scripts]
    /\ url = InitUrl(GoodPage.url)
    /\ NoUrlCall
    /\ results = <<>>
    /\ health = NoneRec
    /\ NoAnalysis
    /\ NoAnalyzerCall
    /\ NoUtilCalls

SpecJsonLd == InitJsonLd /\ [][Next]_vars

(***************************************************************************)
(* SpecDensity: the keyword density of a text, by                          *)
(* Seokar._calculate_keyword_density and by calculate_keyword_density      *)
(***************************************************************************)

\* The most words of a text.
MaxWords == 3

\* The words of the texts: plain, in capitals, a stop word, a short stop word, a
\* hyphenated word, a word with a comma, and a blank.
DensityWords ==
    {<<"s","e","o">>, <<"S","E","O">>, <<"a","n","a","l","y","s","i","s">>, <<"t","h","e">>, <<"i","s">>, <<"o","n","-","p","a","g","e">>, <<"s","e","o",",">>, <<" ">>}

\* The texts of n words at most, a blank between the words.
RECURSIVE Texts(_)
Texts(n) ==
    IF n = 0 THEN {<<>>}
    ELSE Texts(n - 1)
         \cup DensityWords
         \cup {t \o <<" ">> \o w : t \in Texts(n - 1) \ {<<>>}, w \in DensityWords}

Text_seo_seo_analysis == <<"s","e","o"," ","s","e","o"," ","a","n","a","l","y","s","i","s">>

\* The values of top_n: the default, and 1.
TopNs == {1, 10}

\* The keywords asked for.
KeywordLists == {<<>>, <<<<"s","e","o">>>>, <<<<"S","E","O">>, <<"a","n","a","l","y","s","i","s">>>>}

InitDensity ==
    /\ doc = DocOf(GoodPage)
    /\ url = NoneStr
    /\ NoUrlCall
    /\ results = <<>>
    /\ health = NoneRec
    /\ NoAnalysis
    /\ NoAnalyzerCall
    /\ NoStructCall
    /\ NoThreadCall
    /\ NoOrderCall
    /\ NoInitCall
    /\ NoCacheCall
    /\ NoFetchCall
    /\ NoPageCall
    /\ text \in Texts(MaxWords)
    /\ density = NoneRec

\* self._calculate_keyword_density(text, top_n)
CalculateKeywordDensity ==
    /\ \E top_n \in TopNs :
           density' = [method |-> "Seokar._calculate_keyword_density", top_n |-> top_n,
                       result |-> _calculate_keyword_density(text, top_n)]
    /\ UNCHANGED <<doc, url, seokarVars, text, exceptDensity>>

\* calculate_keyword_density(text, keywords), with nltk installed or not
UtilCalculateKeywordDensity ==
    /\ \E word_tokenize \in BOOLEAN, keywords \in KeywordLists :
           density' = [method |-> "calculate_keyword_density",
                       word_tokenize |-> word_tokenize, keywords |-> keywords,
                       result |-> calculate_keyword_density(word_tokenize, text, keywords)]
    /\ UNCHANGED <<doc, url, seokarVars, text, exceptDensity>>

NextDensity ==
    \/ CalculateKeywordDensity
    \/ UtilCalculateKeywordDensity

SpecDensity == InitDensity /\ [][NextDensity]_vars

(***************************************************************************)
(* SpecCache: one SimpleCache, set and get called on it while the clock    *)
(* advances                                                                *)
(***************************************************************************)

\* The clock stops here.
MaxClock == 3

\* The values of ttl.
Ttls == {1, 2}

CacheKeys == {Url_https_example_com, Url_https_a_com_z}

\* (content_bytes, status_code, headers)
Triple(content_bytes, status_code) ==
    [content_bytes |-> content_bytes, status_code |-> status_code, headers |-> <<>>]

CacheValues == {Triple(<<"<","h","t","m","l",">","A","<","/","h","t","m","l",">">>, 200), Triple(<<"<","h","t","m","l",">","B","<","/","h","t","m","l",">">>, 200)}

\* SimpleCache(ttl)
InitCache ==
    /\ doc = DocOf(GoodPage)
    /\ url = NoneStr
    /\ NoUrlCall
    /\ results = <<>>
    /\ health = NoneRec
    /\ NoAnalysis
    /\ NoAnalyzerCall
    /\ NoStructCall
    /\ NoThreadCall
    /\ NoOrderCall
    /\ NoInitCall
    /\ NoDensityCall
    /\ NoFetchCall
    /\ NoPageCall
    /\ _cache = <<>>
    /\ _ttl \in Ttls
    /\ now = 0
    /\ got = NoneRec
    /\ last_set = <<>>

\* cache.set(key, value)
CacheSet ==
    /\ \E key \in CacheKeys, value \in CacheValues :
           /\ _cache' = SimpleCache_set(_cache, now, key, value)
           /\ last_set' = Stored(last_set, key, [value |-> value, timestamp |-> now])
    /\ got' = NoneRec
    /\ UNCHANGED <<doc, url, seokarVars, _ttl, now, exceptCache>>

\* cache.get(key)
CacheGet ==
    /\ \E key \in CacheKeys :
           /\ got' = [key |-> key, value |-> SimpleCache_get(_cache, _ttl, now, key).value]
           /\ _cache' = SimpleCache_get(_cache, _ttl, now, key)._cache
    /\ UNCHANGED <<doc, url, seokarVars, _ttl, now, last_set, exceptCache>>

\* One second passes.
ClockAdvances ==
    /\ now < MaxClock
    /\ now' = now + 1
    /\ got' = NoneRec
    /\ UNCHANGED <<doc, url, seokarVars, _cache, _ttl, last_set, exceptCache>>

NextCache ==
    \/ CacheSet
    \/ CacheGet
    \/ ClockAdvances

SpecCache == InitCache /\ [][NextCache]_vars

(***************************************************************************)
(* SpecFetch, SpecFetchFair: one awaited call of fetch_page_content(url,   *)
(* timeout, retries), each attempt answered in any way                     *)
(***************************************************************************)

\* The most attempts allowed.
MaxRetries == 4

\* The status codes of the non-2xx answers.
ErrorStatusCodes == {304, 404, 500}

\* What an attempt can give.
OkResponses == {[kind |-> "ok", triple |-> v] : v \in CacheValues}
RetriedResponses == {[kind |-> k] : k \in RetriedErrors}
StatusResponses == {[kind |-> "HTTPStatusError", status_code |-> c] : c \in ErrorStatusCodes}
OtherResponses == {[kind |-> "RequestError"]}

\* fetch_page_content(url, timeout, retries) entered.
InitFetch ==
    /\ doc = DocOf(GoodPage)
    /\ url = Url_https_example_com
    /\ NoUrlCall
    /\ results = <<>>
    /\ health = NoneRec
    /\ NoAnalysis
    /\ NoAnalyzerCall
    /\ NoStructCall
    /\ NoThreadCall
    /\ NoOrderCall
    /\ NoInitCall
    /\ NoDensityCall
    /\ NoCacheCall
    /\ NoPageCall
    /\ fpc = "loop"
    /\ retries \in 0..MaxRetries
    /\ attempt = 0
    /\ responses = <<>>
    /\ sleeps = <<>>
    /\ fetched = Running

\* One pass of the loop body with the response the attempt gave.
Attempted(response) ==
    /\ fpc = "loop"
    /\ attempt < retries
    /\ responses' = Append(responses, response)
    /\ fpc' = AfterAttempt(response, attempt, retries).fpc
    /\ fetched' = AfterAttempt(response, attempt, retries).fetched
    /\ UNCHANGED <<doc, url, seokarVars, retries, attempt, sleeps, exceptFetch>>

\* The attempt gets a 2xx answer.
GetSucceeds == \E response \in OkResponses : Attempted(response)

\* The attempt raises ConnectError or a TimeoutException.
GetFailsToConnect == \E response \in RetriedResponses : Attempted(response)

\* The attempt gets a non-2xx answer: raise_for_status() raises HTTPStatusError.
GetHttpStatusError == \E response \in StatusResponses : Attempted(response)

\* The attempt raises another RequestError.
GetRequestError == \E response \in OtherResponses : Attempted(response)

\* await asyncio.sleep(sleep_time), then the next pass of the loop.
Sleep ==
    /\ fpc = "sleep"
    /\ sleeps' = Append(sleeps, sleep_time(attempt))
    /\ attempt' = attempt + 1
    /\ fpc' = "loop"
    /\ UNCHANGED <<doc, url, seokarVars, retries, responses, fetched, exceptFetch>>

\* range(retries) is used up: the return None after the loop.
LoopEnds ==
    /\ fpc = "loop"
    /\ attempt >= retries
    /\ fpc' = "returned"
    /\ fetched' = NoneRec
    /\ UNCHANGED <<doc, url, seokarVars, retries, attempt, responses, sleeps, exceptFetch>>

NextFetch ==
    \/ GetSucceeds
    \/ GetFailsToConnect
    \/ GetHttpStatusError
    \/ GetRequestError
    \/ Sleep
    \/ LoopEnds

SpecFetch == InitFetch /\ [][NextFetch]_vars

\* The event loop runs the awaited coroutine on: every attempt is answered or times
\* out, every sleep ends.
SpecFetchFair == SpecFetch /\ WF_vars(NextFetch)

(***************************************************************************)
(* SpecUrlMode: one SeokarAnalyzer made with url and a SimpleCache,        *)
(* analyze() called again and again while entries are set in the cache and *)
(* the clock advances                                                      *)
(***************************************************************************)

\* The url arguments: a web address, an address without scheme, the empty string.
UrlModeUrls == {Url_https_example_com, Url_no_scheme, <<>>}

\* How the server of the address answers: with the page, with an error status, or
\* not at all.
Networks == {StatusResponse(200), StatusResponse(404), StatusResponse(500), NoResponse}

\* SeokarAnalyzer(url=url, cache=SimpleCache(ttl))
InitUrlMode ==
    /\ doc \in {DocOf(GoodPage), DocOf(MixedContentPage)}
    /\ url \in UrlModeUrls
    /\ NoUrlCall
    /\ results = <<>>
    /\ health = NoneRec
    /\ NoAnalysis
    /\ NoAnalyzerCall
    /\ NoStructCall
    /\ NoThreadCall
    /\ NoOrderCall
    /\ NoInitCall
    /\ NoDensityCall
    /\ NoFetchCall
    /\ fields = NoFields
    /\ lookups = <<>>
    /\ network \in Networks
    /\ _cache = <<>>
    /\ _ttl \in Ttls
    /\ now = 0
    /\ got = NoneRec
    /\ last_set = <<>>

\* analyze(): `if self._url and self._soup is None: self._fetch_and_parse_page()`
UrlAnalyze ==
    /\ apc = "idle"
    /\ Len(outcomes) < MaxAnalyzerCalls
    /\ Truthy(url) /\ ~fields._soup
    /\ apc' = "fetch_and_parse_page"
    /\ UNCHANGED <<doc, url, urlVars, scoreVars, analysisVars, alocals, outcomes, utilVars>>

\* analyze() with no address and no tree: SeokarError, page content not available.
UrlAnalyzeWithoutContent ==
    /\ apc = "idle"
    /\ Len(outcomes) < MaxAnalyzerCalls
    /\ ~Truthy(url) /\ ~fields._soup
    /\ outcomes' = Append(outcomes, [raised |-> "SeokarError", report |-> NoneRec])
    /\ UNCHANGED <<doc, url, urlVars, scoreVars, analysisVars, apc, alocals, utilVars>>

\* analyze() on an instance whose tree an earlier call has set.
UrlAnalyzeParsed ==
    /\ fields._soup
    /\ AnalyzerAnalyze

\* _fetch_and_parse_page raises: on an invalid address before the cache is asked,
\* on a miss at the unpacking of the coroutine object.
FetchAndParsePageRaises ==
    /\ apc = "fetch_and_parse_page"
    /\ _fetch_and_parse_page(url, _cache, _ttl, now, fields).raised # "none"
    /\ outcomes' = Append(outcomes,
                          [raised |-> _fetch_and_parse_page(url, _cache, _ttl, now, fields).raised,
                           report |-> NoneRec])
    /\ fields' = _fetch_and_parse_page(url, _cache, _ttl, now, fields).fields
    /\ _cache' = _fetch_and_parse_page(url, _cache, _ttl, now, fields)._cache
    /\ lookups' = IF _fetch_and_parse_page(url, _cache, _ttl, now, fields).lookup = NoneRec
                  THEN lookups
                  ELSE Append(lookups,
                              _fetch_and_parse_page(url, _cache, _ttl, now, fields).lookup)
    /\ got' = IF _fetch_and_parse_page(url, _cache, _ttl, now, fields).lookup = NoneRec
              THEN got
              ELSE [key |-> url, value |-> NoneRec]
    /\ apc' = "idle"
    /\ UNCHANGED <<doc, url, urlVars, scoreVars, analysisVars, alocals, _ttl, now, last_set,
                   network, exceptCacheAndPage>>

\* _fetch_and_parse_page served from the cache, and analyze() up to its call of
\* _analyze_technical_issues.
FetchAndParsePageFromCache ==
    /\ apc = "fetch_and_parse_page"
    /\ _fetch_and_parse_page(url, _cache, _ttl, now, fields).raised = "none"
    /\ fields' = _fetch_and_parse_page(url, _cache, _ttl, now, fields).fields
    /\ _cache' = _fetch_and_parse_page(url, _cache, _ttl, now, fields)._cache
    /\ lookups' = Append(lookups, _fetch_and_parse_page(url, _cache, _ttl, now, fields).lookup)
    /\ got' = [key |-> url,
               value |-> _fetch_and_parse_page(url, _cache, _ttl, now, fields).lookup.cached_data]
    /\ alocals' = [title |-> _get_title(doc),
                   meta_description |-> _get_meta_description(doc),
                   h1_tags |-> _get_h1_tags(doc),
                   canonical_url |-> _get_canonical_url(doc),
                   robots_tag |-> _get_robots_tag(doc)]
    /\ apc' = "technical_issues"
    /\ UNCHANGED <<doc, url, urlVars, scoreVars, analysisVars, outcomes, _ttl, now, last_set,
                   network, exceptCacheAndPage>>

NextUrlMode ==
    \/ UrlAnalyze
    \/ UrlAnalyzeWithoutContent
    \/ UrlAnalyzeParsed
    \/ FetchAndParsePageRaises
    \/ FetchAndParsePageFromCache
    \/ AnalyzerTechnicalIssuesRaises
    \/ CacheSet
    \/ ClockAdvances

SpecUrlMode == InitUrlMode /\ [][NextUrlMode]_vars

(***************************************************************************)
(* SpecThreads: one Seokar instance, get_all_links() called on it by       *)
(* several threads at once.  SpecThreadsAnalyze: the same while one more   *)
(* thread calls analyze()                                                  *)
(***************************************************************************)

\* The threads that call get_all_links().
MaxCallers == 2
Callers == 1..MaxCallers
Threads == Callers \cup {Analyst}

\* The pages: without anchors, with one internal, with one internal and one external.
ThreadPages ==
    {[base_href |-> NoneStr, anchors |-> a_tags] :
        a_tags \in {<<>>, <<A(Ref_p_html, FALSE)>>,
                    <<A(Ref_p_html, FALSE), A(Ref_https_other_org, TRUE)>>}}

\* Seokar(html_content, url) made, and every caller at the first statement of
\* get_all_links(); the thread of analyze() at position start.
InitThreadsAt(start) ==
    /\ doc \in ThreadPages
    /\ url = Url_https_example_com
    /\ NoUrlCall
    /\ results = <<>>
    /\ health = NoneRec
    /\ NoAnalysis
    /\ NoAnalyzerCall
    /\ NoStructCall /\ NoDensityCall /\ NoCacheCall /\ NoFetchCall /\ NoPageCall
    /\ NoOrderCall /\ NoInitCall
    /\ tpc = [t \in Threads |-> IF t = Analyst THEN start ELSE "check"]
    /\ lock = NoneInt
    /\ extracted = [t \in Threads |-> NoneRec]
    /\ extractions = 0
    /\ writes = <<>>
    /\ returns = <<>>

\* What a step of a thread leaves alone, apart from the cache and the thread state.
ThreadFrame ==
    UNCHANGED <<doc, url, urlVars, scoreVars, pc, building, report, prev_report, passes,
                analyzerVars, exceptThread>>

\* `if self._all_links_cache is None:` outside the lock
Check(t) ==
    /\ tpc[t] = "check"
    /\ tpc' = [tpc EXCEPT ![t] = FirstCheck(cache.all_links)]
    /\ UNCHANGED <<cache, lock, extracted, extractions, writes, returns>>
    /\ ThreadFrame

\* `with self._cache_lock:` entered, once the lock is free
Acquire(t) ==
    /\ tpc[t] = "acquire"
    /\ lock = NoneInt
    /\ lock' = t
    /\ tpc' = [tpc EXCEPT ![t] = "recheck"]
    /\ UNCHANGED <<cache, extracted, extractions, writes, returns>>
    /\ ThreadFrame

\* `if self._all_links_cache is None:` inside the lock
Recheck(t) ==
    /\ tpc[t] = "recheck"
    /\ tpc' = [tpc EXCEPT ![t] = SecondCheck(cache.all_links)]
    /\ UNCHANGED <<cache, lock, extracted, extractions, writes, returns>>
    /\ ThreadFrame

\* the call self._extract_links()
ExtractLinks(t) ==
    /\ tpc[t] = "extract"
    /\ extracted' = [extracted EXCEPT ![t] = Cached(_extract_links(doc, url))]
    /\ extractions' = extractions + 1
    /\ tpc' = [tpc EXCEPT ![t] = "write"]
    /\ UNCHANGED <<cache, lock, writes, returns>>
    /\ ThreadFrame

\* the assignment self._all_links_cache = ...
WriteLinksCache(t) ==
    /\ tpc[t] = "write"
    /\ cache' = [cache EXCEPT !.all_links = extracted[t]]
    /\ writes' = Append(writes, [thread |-> t, lock |-> lock])
    /\ tpc' = [tpc EXCEPT ![t] = "release"]
    /\ UNCHANGED <<lock, extracted, extractions, returns>>
    /\ ThreadFrame

\* `with self._cache_lock:` left
Release(t) ==
    /\ tpc[t] = "release"
    /\ lock' = NoneInt
    /\ tpc' = [tpc EXCEPT ![t] = "return"]
    /\ UNCHANGED <<cache, extracted, extractions, writes, returns>>
    /\ ThreadFrame

\* `return self._all_links_cache`
ReturnLinks(t) ==
    /\ tpc[t] = "return"
    /\ returns' = Append(returns, [thread |-> t, value |-> cache.all_links])
    /\ tpc' = [tpc EXCEPT ![t] = "done"]
    /\ UNCHANGED <<cache, lock, extracted, extractions, writes>>
    /\ ThreadFrame

\* analyze() in its thread: _reset_analysis_state(), which assigns None to
\* self._all_links_cache without the lock; of the analyzers that follow, only
\* _analyze_page_links touches the link cache, by calling get_all_links().
ResetAnalysisState ==
    /\ tpc[Analyst] = "reset"
    /\ cache' = EmptyCache
    /\ writes' = Append(writes, [thread |-> Analyst, lock |-> lock])
    /\ tpc' = [tpc EXCEPT ![Analyst] = "check"]
    /\ UNCHANGED <<lock, extracted, extractions, returns>>
    /\ ThreadFrame

NextThreads ==
    \E t \in Threads :
        \/ Check(t)
        \/ Acquire(t)
        \/ Recheck(t)
        \/ ExtractLinks(t)
        \/ WriteLinksCache(t)
        \/ Release(t)
        \/ ReturnLinks(t)

NextThreadsAnalyze ==
    \/ NextThreads
    \/ ResetAnalysisState

SpecThreads == InitThreadsAt("done") /\ [][NextThreads]_vars

SpecThreadsAnalyze == InitThreadsAt("reset") /\ [][NextThreadsAnalyze]_vars

(***************************************************************************)
(* SpecOrder: one SeokarAnalyzer made with html_content, its analyzers     *)
(* _analyze_technical_issues, _analyze_content_metrics and                 *)
(* _analyze_schema_markup called on it in any order                        *)
(***************************************************************************)

\* Most elements of the tree, and most calls on the instance.
MaxNodes == 2
MaxMethodCalls == 3

\* The elements: JSON-LD scripts in the head and in the body, headings and
\* paragraphs of the body, outside and inside a header or a nav.
TreeNodes ==
    {Node("script", "head", "none", "object", 0),
     Node("script", "body", "none", "object", 0),
     Node("script", "body", "none", "array", 0),
     Node("script", "body", "none", "malformed", 0),
     Node("script", "head", "none", "no_type", 0),
     Node("h1", "body", "none", "", 2),
     Node("h1", "body", "header", "", 2),
     Node("p", "body", "none", "", 60),
     Node("p", "body", "nav", "", 60)}

NodeLists(n) == UNION {[1..k -> TreeNodes] : k \in 0..n}

\* SeokarAnalyzer(html_content=...): the tree is the parse of the markup.
InitOrder ==
    /\ \E tree \in NodeLists(MaxNodes) : doc = [elements |-> tree] /\ soup = tree
    /\ url = NoneStr
    /\ NoUrlCall
    /\ results = <<>>
    /\ health = NoneRec
    /\ NoAnalysis
    /\ NoAnalyzerCall
    /\ NoStructCall /\ NoDensityCall /\ NoCacheCall /\ NoFetchCall /\ NoPageCall
    /\ NoThreadCall /\ NoInitCall
    /\ calls = <<>>

Called(method, result) == [method |-> method, result |-> result]

\* What the caller of _analyze_technical_issues gets: the list of issues, or the
\* exception alone.
TechnicalIssuesOf(tree) ==
    IF _analyze_technical_issues(DocView(tree)).raised = "none"
    THEN _analyze_technical_issues(DocView(tree))
    ELSE [raised |-> _analyze_technical_issues(DocView(tree)).raised]

\* self._analyze_technical_issues(): reads the tree.
CallTechnicalIssues ==
    /\ Len(calls) < MaxMethodCalls
    /\ calls' = Append(calls, Called("_analyze_technical_issues", TechnicalIssuesOf(soup)))
    /\ UNCHANGED <<doc, url, seokarVars, exceptOrder, soup>>

\* self._analyze_content_metrics(): its _extract_page_main_content removes
\* elements from the tree, then the metrics are taken of what is left.
CallContentMetrics ==
    /\ Len(calls) < MaxMethodCalls
    /\ soup' = TreeAfterExtraction(soup)
    /\ calls' = Append(calls, Called("_analyze_content_metrics",
                                     _analyze_content_metrics(TreeAfterExtraction(soup))))
    /\ UNCHANGED <<doc, url, seokarVars, exceptOrder>>

\* self._analyze_schema_markup(): reads the tree.
CallSchemaMarkup ==
    /\ Len(calls) < MaxMethodCalls
    /\ calls' = Append(calls, Called("_analyze_schema_markup",
                                     _analyze_schema_markup(soup)))
    /\ UNCHANGED <<doc, url, seokarVars, exceptOrder, soup>>

NextOrder ==
    \/ CallTechnicalIssues
    \/ CallContentMetrics
    \/ CallSchemaMarkup

SpecOrder == InitOrder /\ [][NextOrder]_vars

(***************************************************************************)
(* SpecInit: Seokar(html_content, url) and SeokarAnalyzer(url=...,         *)
(* html_content=...) called with any arguments, analyze() called on the    *)
(* instances made                                                          *)
(***************************************************************************)

\* Most constructor calls, and most calls of analyze().
MaxConstructions == 2
MaxStarts == 1

\* '<p>x</p>'
Html_minimal == <<"<","p",">","x","<","/","p",">">>

\* The html_content arguments: None, a number, the empty string, a blank string,
\* markup.  The url arguments: None and an address.
MarkupArgs ==
    {NoneValue, IntValue(123), StrValue(<<>>), StrValue(Ref_blank), StrValue(Html_minimal)}
UrlArgs == {NoneStr, Url_https_example_com}

\* Nothing constructed yet.
InitInit ==
    /\ doc = DocOf(GoodPage)
    /\ url = NoneStr
    /\ NoUrlCall
    /\ results = <<>>
    /\ health = NoneRec
    /\ NoAnalysis
    /\ NoAnalyzerCall
    /\ NoStructCall /\ NoDensityCall /\ NoCacheCall /\ NoFetchCall /\ NoPageCall
    /\ NoThreadCall /\ NoOrderCall
    /\ constructed = <<>>
    /\ started = <<>>

Construction(class, html_content, url_arg, outcome) ==
    [class |-> class, html_content |-> html_content, url |-> url_arg,
     raised |-> outcome.raised, instance |-> outcome.instance]

\* Seokar(html_content, url)
ConstructSeokar ==
    /\ Len(constructed) < MaxConstructions
    /\ \E html_content \in MarkupArgs, url_arg \in UrlArgs :
           constructed' = Append(constructed,
                                 Construction("Seokar", html_content, url_arg,
                                              Seokar_init(html_content, url_arg)))
    /\ UNCHANGED <<doc, url, seokarVars, exceptInit, started>>

\* SeokarAnalyzer(url=url, html_content=html_content)
ConstructSeokarAnalyzer ==
    /\ Len(constructed) < MaxConstructions
    /\ \E html_content \in MarkupArgs, url_arg \in UrlArgs :
           constructed' = Append(constructed,
                                 Construction("SeokarAnalyzer", html_content, url_arg,
                                              SeokarAnalyzer_init(url_arg, html_content)))
    /\ UNCHANGED <<doc, url, seokarVars, exceptInit, started>>

\* instance.analyze(), on an instance that a constructor returned
StartAnalysis ==
    /\ Len(started) < MaxStarts
    /\ \E i \in DOMAIN constructed :
           /\ constructed[i].instance # NoneRec
           /\ started' = Append(started,
                                [of |-> i, ends |-> AnalyzeEnds(constructed[i].instance)])
    /\ UNCHANGED <<doc, url, seokarVars, exceptInit, constructed>>

NextInit ==
    \/ ConstructSeokar
    \/ ConstructSeokarAnalyzer
    \/ StartAnalysis

SpecInit == InitInit /\ [][NextInit]_vars

(***************************************************************************)
(* SpecAnchorTexts: one Seokar instance over a page whose anchors have     *)
(* any of a few texts, analyze() called on it                              *)
(***************************************************************************)

\* Most <a href> elements of a page.
MaxLinks == 2

Text_Click_Here == <<"C","l","i","c","k"," ","H","e","r","e">>
Text_Example_shop == <<"E","x","a","m","p","l","e"," ","s","h","o","p">>
Text_Pricing == <<"P","r","i","c","i","n","g">>
Text_three_long_words == <<"i","n","t","e","r","n","a","t","i","o","n","a","l","i","z","a","t","i","o","n"," ","c","o","n","s","i","d","e","r","a","t","i","o","n","s"," ","o","v","e","r","v","i","e","w">>
Text_six_words == <<"h","o","w"," ","t","o"," ","c","h","o","o","s","e"," ","t","h","e"," ","r","i","g","h","t"," ","p","l","a","n">>

\* The anchors: without text, with a generic text, with the name of the site, with
\* a short text, with three long words, with six words, with the placeholder as
\* its text; internal, external and one that _extract_links passes over.
TextAnchors ==
    {AText(Href_about, FALSE, <<>>),
     AText(Ref_https_other_org, FALSE, <<>>),
     AText(Href_about, FALSE, Text_Click_Here),
     AText(Ref_https_other_org, TRUE, Text_Example_shop),
     AText(Href_about, FALSE, Text_Pricing),
     AText(Ref_https_other_org, FALSE, Text_three_long_words),
     AText(Href_about, FALSE, Text_six_words),
     AText(Href_about, FALSE, NoAnchorText),
     AText(Ref_mailto, FALSE, Text_Click_Here)}

\* The url arguments: the site, the site with www., none.
AnchorTextUrls == {Url_https_example_com, Url_https_www_example_com_p, NoneStr}

TextAnchorLists(n) == UNION {[1..k -> TextAnchors] : k \in 0..n}

InitAnchorTexts ==
    /\ \E a_tags \in TextAnchorLists(MaxLinks), u \in AnchorTextUrls :
           /\ doc = DocOf([GoodPage EXCEPT !.anchors = a_tags])
           /\ url = InitUrl(u)
    /\ NoUrlCall
    /\ results = <<>>
    /\ health = NoneRec
    /\ NoAnalysis
    /\ NoAnalyzerCall
    /\ NoUtilCalls

SpecAnchorTexts == InitAnchorTexts /\ [][Next]_vars

(***************************************************************************)
(* Properties of the constructors (SpecInit)                               *)
(***************************************************************************)

NonTextual(html_content) == html_content.type # "str"
Blank(html_content) == html_content.type = "str" /\ Strip(html_content.str) = <<>>

\* The constructor calls that the claim is about.
BadMarkup(construction) ==
    \/ /\ construction.class = "Seokar"
       /\ NonTextual(construction.html_content) \/ Blank(construction.html_content)
    \/ /\ construction.class = "SeokarAnalyzer"
       /\ construction.html_content = StrValue(<<>>)
       /\ construction.url = NoneStr

\* C24: a constructor called with markup that is not text, or empty or blank,
\* raises an error (for Seokar: TypeError, ValueError) and makes no instance, so
\* that no analysis is started on one; the same for SeokarAnalyzer called with an
\* empty html_content and no address.
C24_BadMarkupRejectedAtConstruction ==
    /\ \A i \in DOMAIN constructed :
           BadMarkup(constructed[i]) =>
               /\ constructed[i].raised # "none"
               /\ constructed[i].instance = NoneRec
               /\ constructed[i].class = "Seokar" =>
                      constructed[i].raised =
                          IF NonTextual(constructed[i].html_content) THEN "TypeError"
                          ELSE "ValueError"
    /\ \A j \in DOMAIN started : ~BadMarkup(constructed[started[j].of])

(***************************************************************************)
(* Properties of the order of the analyzers (SpecOrder)                    *)
(***************************************************************************)

\* C23: whatever was called before, _analyze_technical_issues and
\* _analyze_schema_markup give what they give on the tree as parsed; so
\* schema_present is true for a document whose valid JSON-LD block is in the body.
C23_AnalyzersIndependentOfOrder ==
    \A i \in DOMAIN calls :
        /\ calls[i].method = "_analyze_technical_issues" =>
               calls[i].result = TechnicalIssuesOf(doc.elements)
        /\ calls[i].method = "_analyze_schema_markup" =>
               calls[i].result = _analyze_schema_markup(doc.elements)

(***************************************************************************)
(* Properties of the link cache under threads (SpecThreads,                *)
(* SpecThreadsAnalyze)                                                     *)
(***************************************************************************)

\* C22: with no reset, the calls of get_all_links() of all threads together make
\* at most one call of _extract_links, every assignment to the link cache is made
\* by the thread that holds the lock, and every call returns the mapping that
\* _extract_links gives for the page.
C22_PopulatedOnceUnderLock ==
    /\ extractions <= 1
    /\ \A i \in DOMAIN writes : writes[i].lock = writes[i].thread
    /\ \A i \in DOMAIN returns : returns[i].value = Cached(_extract_links(doc, url))

\* Every caller but one has returned, and the last one had passed the first test
\* while the cache was empty, waited for the lock and found the cache filled at
\* the second test: it holds the lock and has extracted nothing.
C22_Witness ==
    /\ Len(returns) = MaxCallers - 1
    /\ extractions = 1
    /\ \E t \in Callers :
           tpc[t] = "release" /\ lock = t /\ extracted[t] = NoneRec

\* C30: a call of get_all_links() made while another thread runs analyze() returns
\* a mapping, never None.
C30_NeverReturnsNone ==
    \A i \in DOMAIN returns : returns[i].value # NoneRec

(***************************************************************************)
(* Properties of the URL resolver (SpecUrl)                                *)
(***************************************************************************)

\* 'http://a.com/d/sub/'
Res_http_a_com_d_sub ==
    <<"h","t","t","p",":","/","/","a",".","c","o","m","/","d","/","s","u","b","/">>

\* References without a web scheme-and-host and without a non-web scheme: the ones
\* _make_absolute_url needs a base for.
RelativeRefs == RootRelativeRefs \cup PathRelativeRefs

\* C7: _make_absolute_url returns a reference unchanged when it has an http/https
\* scheme with a host or any non-web scheme, whatever the base declaration and the
\* source address are; '/y' with source 'https://a.com/z' and no absolute base
\* declaration resolves to 'https://a.com/y'; 'p.html' with the base declaration
\* 'https://b.com/dir/' resolves to 'https://b.com/dir/p.html'.
C7_AbsoluteUnchangedAndExamples ==
    ucall = "resolve" =>
        /\ href \in WebAbsoluteRefs \cup NonWebRefs => resolved = href
        /\ (/\ href = Ref_root_y
            /\ url = Url_https_a_com_z
            /\ doc.base_href \notin AbsoluteBases) => resolved = Res_https_a_com_y
        /\ (/\ href = Ref_p_html
            /\ Truthy(doc.base_href)
            /\ Strip(doc.base_href) = Base_https_b_com_dir)
               => resolved = Res_https_b_com_dir_p

\* C7: an absolute reference resolved on a page that has both a base declaration
\* and a source address of other hosts.
C7_Witness ==
    /\ ucall = "resolve"
    /\ href = Ref_https_a_com_x
    /\ doc.base_href = Base_https_b_com_dir
    /\ url = Url_https_example_com
    /\ resolved = Ref_https_a_com_x

\* C8: for a relative reference the base is the absolute base declaration as
\* declared; else the relative base declaration joined onto the valid source address;
\* else, with an absent, empty or blank declaration, the valid source address; and
\* none when the declaration is relative and there is no valid source address.  The
\* reference is joined onto that base.
C8_BaseSelectionPriority ==
    (ucall = "resolve" /\ href \in RelativeRefs) =>
        /\ doc.base_href \in AbsoluteBases => effective_base = Strip(doc.base_href)
        /\ (doc.base_href \in RelativeBases /\ url # NoneStr)
               => effective_base = urljoin(url, doc.base_href)
        /\ doc.base_href \in BlankBases => effective_base = url
        /\ (doc.base_href \in RelativeBases /\ url = NoneStr)
               => effective_base = NoneStr
        /\ effective_base # NoneStr => resolved = urljoin(effective_base, href)

\* C8: a relative base declaration joined onto the source address.
C8_Witness ==
    /\ ucall = "resolve"
    /\ href = Ref_p_html
    /\ doc.base_href = Base_sub
    /\ url = Url_http_a_com_d_e
    /\ effective_base = Res_http_a_com_d_sub

\* No base can be formed: no valid source address, and a base declaration that is
\* absent, blank or relative.
NoBaseAvailable == url = NoneStr /\ doc.base_href \notin AbsoluteBases

\* C9: without a resolution base a scheme-less reference resolves to itself when it
\* begins with '/' and to null otherwise; null and blank references always resolve
\* to null.
C9_NoBaseResolution ==
    ucall = "resolve" =>
        /\ href \in BlankRefs => resolved = NoneStr
        /\ (NoBaseAvailable /\ href \in RootRelativeRefs) => resolved = href
        /\ (NoBaseAvailable /\ href \in PathRelativeRefs) => resolved = NoneStr

\* C9: a path-relative reference on a page with a relative base declaration and no
\* source address.
C9_Witness ==
    /\ ucall = "resolve"
    /\ url = NoneStr
    /\ doc.base_href = Base_sub
    /\ href = Ref_up_another
    /\ resolved = NoneStr

\* A host, lower-cased, without a leading 'www.'.
WithoutLeadingWww(host) ==
    IF StartsWith(Lower(host), WwwDot)
    THEN From(Lower(host), Len(WwwDot) + 1)
    ELSE Lower(host)

\* Whether a candidate has no host component.
HasNoHost(c) == ~Truthy(c) \/ urlparse(c).netloc = <<>>

\* C10: with a valid source address, _is_internal_url is true for every candidate
\* without a host, and for a candidate with a host exactly when the two hosts are
\* equal after removing a leading 'www.' (only a leading one) and ignoring case.
C10_LeadingWwwOnly ==
    (ucall = "classify" /\ url # NoneStr) =>
        internal = (\/ HasNoHost(candidate)
                    \/ WithoutLeadingWww(urlparse(candidate).netloc)
                           = WithoutLeadingWww(urlparse(url).netloc))

\* C11: without a valid source address, _is_internal_url is true for every candidate
\* without a host component and false for every candidate with one, a candidate
\* without a scheme such as '//cdn.com/x' included.
C11_NoSourceInternalIffNoHost ==
    (ucall = "classify" /\ url = NoneStr) => internal = HasNoHost(candidate)

(***************************************************************************)
(* Properties of the keyword density (SpecDensity)                         *)
(***************************************************************************)

\* Seokar._calculate_keyword_density was called on the text "seo seo analysis".
SeokarDensityOfTheExample ==
    /\ density # NoneRec
    /\ density.method = "Seokar._calculate_keyword_density"
    /\ text = Text_seo_seo_analysis

\* The density listed for a term, -1 when the term is not listed.
ListedDensity(items, term) ==
    IF \E i \in DOMAIN items : items[i].term = term
    THEN items[CHOOSE i \in DOMAIN items : items[i].term = term].density
    ELSE -1

\* C16 as the specification states it: for the text "seo seo analysis" the density
\* of the term "seo" is 100%.
C16_DensityOfSeoIs100 ==
    SeokarDensityOfTheExample => ListedDensity(density.result, <<"s","e","o">>) = 10000

\* C16 as the code has it: the three words of "seo seo analysis" all pass the
\* filter, so the density of the term "seo" is 2/3 * 100 rounded to two places,
\* 66.67%, whatever top_n; the utility function, asked for the keyword "seo", gives
\* the fraction 2/3 with a tokenizer and 0.0 without one.
C16_DensityOfSeoIsTwoThirds ==
    /\ SeokarDensityOfTheExample =>
           /\ ListedDensity(density.result, <<"s","e","o">>) = 6667
           /\ density.result[1].term = <<"s","e","o">>
           /\ density.top_n = 10 =>
                  /\ Len(density.result) = 4
                  /\ ListedDensity(density.result, <<"a","n","a","l","y","s","i","s">>) = 3333
    /\ (/\ density # NoneRec
        /\ density.method = "calculate_keyword_density"
        /\ text = Text_seo_seo_analysis
        /\ density.keywords = <<<<"s","e","o">>>>) =>
           density.result[<<"s","e","o">>] =
               IF density.word_tokenize THEN [num |-> 2, den |-> 3]
               ELSE [num |-> 0, den |-> 1]

\* Both functions have been asked about "seo seo analysis".
C16_Witness ==
    /\ SeokarDensityOfTheExample
    /\ density.top_n = 10
    /\ Len(density.result) = 4

\* A term made of two words.
IsBigram(term) == Find(term, " ") # 0

Text_seo_seo_seo == <<"s","e","o"," ","s","e","o"," ","s","e","o">>

FreshlySet(key) ==
    /\ key \in DOMAIN last_set
    /\ now - last_set[key].timestamp <= _ttl

\* C17: a get that has just returned gave the value of the last set of its key when
\* at most the TTL has passed since that set, and None otherwise; after a get that
\* returned None the key is not held; every entry held is as its last set left it,
\* value and timestamp, whatever gets and sets of other keys came after.
C17_GetReturnsLastSetWhileFresh ==
    /\ got # NoneRec =>
           /\ got.value = IF FreshlySet(got.key) THEN last_set[got.key].value ELSE NoneRec
           /\ got.value = NoneRec => got.key \notin DOMAIN _cache
    /\ \A key \in DOMAIN _cache :
           /\ key \in DOMAIN last_set
           /\ _cache[key] = last_set[key]

\* A get returned the value of an entry aged exactly the TTL, after an earlier
\* entry of the other key had expired and been removed by a get.
C17_Witness ==
    /\ got # NoneRec
    /\ got.value # NoneRec
    /\ now - last_set[got.key].timestamp = _ttl
    /\ \E key \in DOMAIN last_set : key # got.key /\ key \notin DOMAIN _cache

(***************************************************************************)
(* Properties of fetch_page_content (SpecFetch, SpecFetchFair)             *)
(***************************************************************************)

\* The attempt failed by a connection failure or a timeout.
ConnectionFailure(response) == response.kind \in {"ConnectError", "ConnectTimeout", "ReadTimeout"}

\* Every attempt but the last failed by a connection failure or a timeout.
OnlyTheLastMayEnd ==
    \A k \in 1..(Len(responses) - 1) : ConnectionFailure(responses[k])

\* The waits so far are 2^0, 2^1, ... seconds, one after each attempt that was
\* followed by another, none after the last attempt allowed.
WaitsDouble ==
    /\ \A k \in DOMAIN sleeps : sleeps[k] = 2 ^ (k - 1)
    /\ Len(sleeps) = IF fpc = "loop" THEN Len(responses)
                     ELSE IF Len(responses) = 0 THEN 0 ELSE Len(responses) - 1
    /\ retries > 0 => Len(sleeps) <= retries - 1

\* What the function has returned, when it has.
ReturnsFirstSuccessOrNone ==
    fpc = "returned" =>
        /\ Len(responses) > 0 /\ responses[Len(responses)].kind = "ok" =>
               fetched = responses[Len(responses)].triple
        /\ ~(Len(responses) > 0 /\ responses[Len(responses)].kind = "ok") =>
               fetched = NoneRec
        /\ (\A k \in DOMAIN responses : ConnectionFailure(responses[k])) =>
               Len(responses) = retries

\* C18: the awaited call makes at most `retries` attempts; after the k-th
\* connection failure in a row (k from 0) it waits 2^k seconds before the next
\* attempt and it does not wait after the last attempt allowed; it returns the
\* triple of the first attempt that succeeds and makes no attempt after it; it
\* returns None once all the attempts allowed have failed; and it always returns.
C18_AtMostRetriesAttemptsAndReturns ==
    /\ [](/\ Len(responses) <= retries
          /\ OnlyTheLastMayEnd
          /\ WaitsDouble
          /\ ReturnsFirstSuccessOrNone
          /\ fpc # "returned" => fetched = Running)
    /\ <>(fpc = "returned")

\* The call returned the triple of its fourth attempt after waits of 1, 2 and 4
\* seconds.
C18_Witness ==
    /\ fpc = "returned"
    /\ retries = 4
    /\ Len(responses) = 4
    /\ fetched \in CacheValues
    /\ sleeps = <<1, 2, 4>>

\* The last attempt got a non-2xx answer or failed by a request error that is
\* neither a connection failure nor a timeout.
LastAttemptFailedForGood ==
    /\ Len(responses) > 0
    /\ responses[Len(responses)].kind \in {"HTTPStatusError", "RequestError"}

\* C19: once an attempt gets a non-2xx status or fails by a request error other
\* than a connection failure or a timeout, the function has returned None: that
\* attempt stays the last and no wait follows it, whatever is left of retries.
C19_NoRetryOnStatusOrRequestError ==
    LastAttemptFailedForGood =>
        /\ fpc = "returned"
        /\ fetched = NoneRec
        /\ Len(sleeps) = Len(responses) - 1

\* A 404 at the second of three attempts allowed: returned None after the one wait
\* that followed the first attempt.
C19_Witness ==
    /\ LastAttemptFailedForGood
    /\ retries = 3
    /\ Len(responses) = 2
    /\ responses[2].kind = "HTTPStatusError"
    /\ sleeps = <<1>>
    /\ fetched = NoneRec

(***************************************************************************)
(* Properties of SeokarAnalyzer made with url (SpecUrlMode)                *)
(***************************************************************************)

\* The triple that the attributes hold.
TripleOf(attributes) ==
    [content_bytes |-> attributes._html_content_bytes,
     status_code |-> attributes._status_code,
     headers |-> attributes._response_headers]

\* C20: every lookup asks the cache first.  On a hit the attributes are the cached
\* triple, fetch_page_content is not called and the loading time is 0.  On a miss
\* fetch_page_content is called once and run to its end, and what is stored under
\* the address is the triple it returned, nothing when it returned None.
C20_CacheConsultedBeforeNetwork ==
    \A i \in DOMAIN lookups :
        /\ lookups[i].cached_data # NoneRec =>
               /\ lookups[i].coroutines = 0
               /\ TripleOf(lookups[i].fields) = lookups[i].cached_data
               /\ lookups[i].fields._loading_time_ms = 0
               /\ lookups[i].stored = NoneRec
        /\ lookups[i].cached_data = NoneRec =>
               /\ lookups[i].coroutines = 1
               /\ lookups[i].awaited
               /\ lookups[i].fetched # Running
               /\ lookups[i].stored = lookups[i].fetched

\* The retrieval of lookup i failed: the cache held nothing fresh for the address
\* and the server answers with an error status or not at all.
RetrievalFailed(i) ==
    /\ lookups[i].cached_data = NoneRec
    /\ network # StatusResponse(200)

\* C21: a call of analyze() whose retrieval fails raises SeokarHTTPError and returns
\* no report, and the status_code of the error is None exactly when the server
\* gave no response, the error status of the server otherwise.
C21_RetrievalFailureIsTyped ==
    /\ \A i \in DOMAIN outcomes :
           outcomes[i].raised # "none" => outcomes[i].report = NoneRec
    /\ \A i \in DOMAIN lookups :
           RetrievalFailed(i) =>
               /\ lookups[i].raised = "SeokarHTTPError"
               /\ lookups[i].status_code = NoneInt <=> network = NoResponse
               /\ network # NoResponse => lookups[i].status_code = network.status_code

(***************************************************************************)
(* Properties of the Microdata and RDFa items (SpecStructured)             *)
(***************************************************************************)

\* The scoped elements around element p, and the nearest of them (0 without one):
\* an ancestor comes before its descendants, so the nearest is the last.
ScopedAround(elements, p) ==
    {s \in DOMAIN elements : elements[s].scope /\ IsDescendant(elements, p, s)}

Owner(elements, p) ==
    IF ScopedAround(elements, p) = {} THEN 0
    ELSE CHOOSE s \in ScopedAround(elements, p) :
             \A t \in ScopedAround(elements, p) : t <= s

\* The items that hold a value read from element p.
ItemsHolding(items, p) ==
    {k \in DOMAIN items :
        \E n \in DOMAIN items[k].properties :
            \E j \in DOMAIN items[k].properties[n] :
                items[k].properties[n][j].element = p}

\* The items declared by element s.
ItemsOf(items, s) == {k \in DOMAIN items : items[k].type = TypeAt(s)}

\* Every property element is held by the item of its nearest scoped ancestor and by
\* no other item; valued tells which property elements give a value at all.
AttributedToNearest(elements, items, valued) ==
    \A p \in DOMAIN elements :
        elements[p].prop =>
            /\ ItemsHolding(items, p) \subseteq ItemsOf(items, Owner(elements, p))
            /\ Cardinality(ItemsHolding(items, p)) <= 1
            /\ (Owner(elements, p) # 0 /\ p \in valued) =>
                   Cardinality(ItemsHolding(items, p)) = 1

\* An outer scoped element with one property of its own and a scoped child with a
\* property of its own.
NestedScope ==
    <<Element(0, "scope", 1), Element(1, "prop", 2),
      Element(1, "scope", 3), Element(3, "prop", 4)>>

\* What the two extractions return for it: the outer item with the one property,
\* the nested item with the other.
NestedScopeItems ==
    <<[type |-> TypeAt(1),
       properties |-> ("name" :> <<[element |-> 2, nested |-> FALSE]>>)],
      [type |-> TypeAt(3),
       properties |-> ("name" :> <<[element |-> 4, nested |-> FALSE]>>)]>>

ScriptsOfKind(kind) == {i \in DOMAIN doc.json_ld : doc.json_ld[i].kind = kind}

\* The findings of a level with a message.
FindingsOf(res, level, message) ==
    {i \in DOMAIN res : res[i].level = level /\ res[i].message = message}

\* The objects of the well-formed scripts of the page.
ObjectsOfPage ==
    UNION {{doc.json_ld[i].items[j].id :
                j \in {k \in DOMAIN doc.json_ld[i].items : doc.json_ld[i].items[k].is_dict}} :
           i \in DOMAIN doc.json_ld}

\* The list holds every object of the page once, in document order.
AllObjectsInDocumentOrder(json_ld_data_list) ==
    /\ {json_ld_data_list[i].id : i \in DOMAIN json_ld_data_list} = ObjectsOfPage
    /\ \A i, j \in DOMAIN json_ld_data_list :
           i < j => json_ld_data_list[i].id < json_ld_data_list[j].id

\* One ERROR finding for each malformed script and one INFO finding for each empty
\* one.
OneFindingPerScript(res) ==
    /\ Cardinality(FindingsOf(res, ERROR, "JSON-LD Parsing Error"))
           = Cardinality(ScriptsOfKind("malformed"))
    /\ Cardinality(FindingsOf(res, INFO, "Empty JSON-LD Script Tag"))
           = Cardinality(ScriptsOfKind("empty"))

\* The keys of the report that analyze() returns.
CompleteReport(rep) ==
    DOMAIN rep = {"analyzer_version", "url", "basic_seo", "headings", "content_quality",
                  "images", "links", "social_media_tags", "structured_data",
                  "seo_health", "issues", "recommendations"}

IsRelativeHref(h) ==
    /\ Truthy(h)
    /\ ~Ignored(Strip(h))
    /\ urlparse(Strip(h)).scheme = <<>>
    /\ urlparse(Strip(h)).netloc = <<>>

\* Whether a list of links has a record of this address.
Lists(links, address) == \E k \in DOMAIN links : links[k].url = address

\* C12: a link with a relative href on a page with an absolute base declaration is
\* listed among the internal links under the address resolved against the base
\* declaration, whatever the host of the source address.
C12_BaseResolvedLinkIsInternal ==
    (cache.all_links # NoneRec /\ doc.base_href \in AbsoluteBases) =>
        \A i \in DOMAIN doc.anchors :
            IsRelativeHref(doc.anchors[i].href) =>
                Lists(cache.all_links.value.internal,
                      urljoin(Strip(doc.base_href), Strip(doc.anchors[i].href)))

\* The anchors of the page for which _extract_links makes a link record.
RecordedAnchors ==
    {i \in DOMAIN doc.anchors :
        /\ Truthy(doc.anchors[i].href)
        /\ ~Ignored(Strip(doc.anchors[i].href))
        /\ Truthy(_make_absolute_url(doc.base_href, url, Strip(doc.anchors[i].href)))}

\* Every record made is in one list, and no record is in both.
InExactlyOneList(links) ==
    /\ Len(links.internal) + Len(links.external) = Cardinality(RecordedAnchors)
    /\ \A i \in RecordedAnchors :
           \/ Lists(links.internal,
                    _make_absolute_url(doc.base_href, url, Strip(doc.anchors[i].href)))
           \/ Lists(links.external,
                    _make_absolute_url(doc.base_href, url, Strip(doc.anchors[i].href)))
    /\ \A i \in DOMAIN links.internal : ~Lists(links.external, links.internal[i].url)

\* C13: every link record that the extraction makes is in exactly one of the two
\* lists, and the report's total_links_found is the sum of its internal_links_count
\* and external_links_count, which are the lengths of the two lists.
C13_EveryLinkInExactlyOneList ==
    /\ cache.all_links # NoneRec => InExactlyOneList(cache.all_links.value)
    /\ report # NoneRec =>
           report.links.total_links_found =
               report.links.internal_links_count + report.links.external_links_count
    /\ (report # NoneRec /\ cache.all_links # NoneRec) =>
           /\ report.links.internal_links_count = Len(cache.all_links.value.internal)
           /\ report.links.external_links_count = Len(cache.all_links.value.external)

\* A report on a page with an internal and an external link.
C13_Witness ==
    /\ report # NoneRec
    /\ cache.all_links # NoneRec
    /\ report.links.internal_links_count > 0
    /\ report.links.external_links_count > 0
    /\ report.links.total_links_found = 2

(***************************************************************************)
(* Properties of the report (Spec)                                         *)
(***************************************************************************)

\* The number of findings of one level in a list of issues.
Count(issues, level) == Cardinality({i \in DOMAIN issues : issues[i].level = level})

\* 10 C + 5 E + 2 W over a list of issues.
Penalty(issues) ==
    10 * Count(issues, CRITICAL) + 5 * Count(issues, ERROR) + 2 * Count(issues, WARNING)

\* C2: the score of a report is max(0, 100 - 10 C - 5 E - 2 W) and its
\* total_issues_found is C + E + W, where C, E and W count the CRITICAL, ERROR and
\* WARNING findings in the issues of the same report; GOOD and INFO findings count
\* for nothing.
C2_ScoreIsClosedFormOfIssues ==
    report # NoneRec =>
        /\ report.seo_health.score = Max(0, 100 - Penalty(report.issues))
        /\ report.seo_health.total_issues_found =
               Count(report.issues, CRITICAL) + Count(report.issues, ERROR)
               + Count(report.issues, WARNING)
        /\ report.seo_health.critical_issues_count = Count(report.issues, CRITICAL)
        /\ report.seo_health.error_issues_count = Count(report.issues, ERROR)
        /\ report.seo_health.warning_issues_count = Count(report.issues, WARNING)

\* A report whose findings cost more than 100 points, with findings of all five
\* levels among them.
C2_Witness ==
    /\ report # NoneRec
    /\ Penalty(report.issues) > 100
    /\ report.seo_health.score = 0
    /\ \A level \in SEOResultLevel : Count(report.issues, level) > 0

\* The recommendations of the findings at WARNING or above that are not empty.
ActionableRecommendations(issues) ==
    {issues[i].recommendation :
        i \in {j \in DOMAIN issues :
                 /\ issues[j].level \in {WARNING, ERROR, CRITICAL}
                 /\ issues[j].recommendation # NoneStr
                 /\ issues[j].recommendation # <<>>}}

\* C4: the recommendations of a report are exactly the non-empty recommendations of
\* its findings of level WARNING, ERROR or CRITICAL, each listed once, in ascending
\* order.
C4_RecommendationsSortedUniqueActionable ==
    report # NoneRec =>
        /\ Range(report.recommendations) = ActionableRecommendations(report.issues)
        /\ \A i, j \in DOMAIN report.recommendations :
               i < j => StrLess(report.recommendations[i], report.recommendations[j])

\* A report with several recommendations, one of them carried by two findings, and
\* with an INFO finding whose recommendation is not listed.
C4_Witness ==
    /\ report # NoneRec
    /\ Len(report.recommendations) > 2
    /\ \E i, j \in DOMAIN report.issues :
           /\ i < j
           /\ report.issues[i].recommendation = report.issues[j].recommendation
           /\ report.issues[i].recommendation \in Range(report.recommendations)
    /\ \E i \in DOMAIN report.issues :
           /\ report.issues[i].level = INFO
           /\ Truthy(report.issues[i].recommendation)
           /\ report.issues[i].recommendation \notin Range(report.recommendations)

\* The positions of the findings about one element type in a list of issues.
FindingsAbout(issues, element_type) ==
    {i \in DOMAIN issues : issues[i].element_type = element_type}

\* The level that the title of the document calls for.
TitleLevel(title) ==
    IF title = NoneInt \/ title = 0 THEN CRITICAL
    ELSE IF title < 30 \/ title > 60 THEN WARNING
    ELSE GOOD

\* The findings of a list about the Title are exactly one, of the level that the
\* title calls for and, when that level is GOOD, named "Optimal Title Length".
OneTitleFinding(issues) ==
    /\ Cardinality(FindingsAbout(issues, "Title")) = 1
    /\ \A i \in FindingsAbout(issues, "Title") :
           /\ issues[i].level = TitleLevel(doc.title)
           /\ issues[i].level = GOOD <=> issues[i].message = "Optimal Title Length"

\* C6: every pass emits exactly one finding about the Title: CRITICAL when the title
\* is missing or empty, WARNING when it is shorter than 30 or longer than 60, GOOD
\* otherwise.  It is in the findings from the basic checks on, and in the report.
C6_ExactlyOneTitleFinding ==
    /\ pc \notin {"idle", "basic_seo"} => OneTitleFinding(results)
    /\ report # NoneRec => OneTitleFinding(report.issues)

\* A report on a title of exactly 60 characters, found GOOD.
C6_Witness ==
    /\ report # NoneRec
    /\ doc.title = 60
    /\ \E i \in DOMAIN report.issues :
           /\ report.issues[i].element_type = "Title"
           /\ report.issues[i].level = GOOD

\* The document has no H1 heading with text.
NoNonEmptyH1 ==
    \A i \in DOMAIN doc.headings :
        doc.headings[i].level = 1 => doc.headings[i].length = 0

\* C5: the report on a document without a non-empty H1 heading, a document without
\* any heading included, has an ERROR finding "Missing H1 Tag".
C5_MissingH1AlwaysReported ==
    (report # NoneRec /\ NoNonEmptyH1) =>
        \E i \in DOMAIN report.issues :
            /\ report.issues[i].level = ERROR
            /\ report.issues[i].message = "Missing H1 Tag"

\* Two calls of Seokar.analyze in a row return equal reports.
SeokarAnalyzeIdempotent ==
    (report # NoneRec /\ prev_report # NoneRec) => report = prev_report

(***************************************************************************)
(* Properties of the health score (SpecScore)                              *)
(***************************************************************************)

\* The score of the first k results.
ScoreOfFirst(k) == _calculate_seo_health_score(SubSeq(results, 1, k)).score

\* C3: whatever results were added, the computed score lies in 0..100; one more
\* result never raises it: a CRITICAL, ERROR or WARNING one lowers it unless it was
\* 0 already, and a GOOD or INFO one leaves it as it was.
C3_ScoreBoundedAndMonotone ==
    /\ health # NoneRec => health.score \in 0..100
    /\ \A k \in 1..Len(results) :
           /\ ScoreOfFirst(k) \in 0..100
           /\ ScoreOfFirst(k) <= ScoreOfFirst(k - 1)
           /\ results[k].level \in {WARNING, ERROR, CRITICAL}
                  => (ScoreOfFirst(k) < ScoreOfFirst(k - 1) \/ ScoreOfFirst(k - 1) = 0)
           /\ results[k].level \in {INFO, GOOD}
                  => ScoreOfFirst(k) = ScoreOfFirst(k - 1)

\* C3: the score taken after a WARNING was added to results that already cost more
\* than 100 points.
C3_Witness ==
    /\ Len(results) = MaxCritical + MaxAdd
    /\ results[Len(results)].level = WARNING
    /\ results[Len(results) - 1].level = ERROR
    /\ health = _calculate_seo_health_score(results)
    /\ health.score = 0
    /\ health.total_issues_found = Len(results)

(***************************************************************************)
(* Properties of the page with two H1 elements, no description, noindex    *)
(* and nofollow (Spec for Seokar, SpecUrlMode for SeokarAnalyzer)          *)
(***************************************************************************)

\* The document has two H1 elements with text, no meta description and the robots
\* directives noindex and nofollow.
TwoH1NoDescriptionNoIndexNoFollow(d) ==
    /\ Len(HeadingTexts(d.headings, 1)) = 2
    /\ get_meta_description(d) = NoneInt
    /\ In(NoIndex, get_meta_robots(d))
    /\ In(NoFollow, get_meta_robots(d))

\* A list of issues has a finding of the level with the message.
HasFinding(issues, level, message) ==
    \E i \in DOMAIN issues : issues[i].level = level /\ issues[i].message = message

\* The report of Seokar.analyze for such a document has the four findings and a
\* score of at most 84.
SeokarReportsTheFourFindings ==
    (report # NoneRec /\ TwoH1NoDescriptionNoIndexNoFollow(doc)) =>
        /\ HasFinding(report.issues, WARNING, "Multiple H1 Tags ({h1_count})")
        /\ HasFinding(report.issues, WARNING, "Missing Meta Description")
        /\ HasFinding(report.issues, CRITICAL, "Page is NoIndexed")
        /\ HasFinding(report.issues, WARNING, "Page is NoFollow")
        /\ report.seo_health.score <= 84

\* A report of Seokar.analyze for such a document.
SeokarReportsTheFourFindings_Reached ==
    report # NoneRec /\ TwoH1NoDescriptionNoIndexNoFollow(doc)

\* How often an entry occurs in a list of technical issues.
Occurrences(issues, entry) == Cardinality({i \in DOMAIN issues : issues[i] = entry})

\* C25: for a document with two H1 elements with text, no meta description and
\* the robots directives noindex and nofollow, Seokar.analyze reports a WARNING
\* for the H1 elements, a WARNING for the description, a CRITICAL for noindex and a
\* WARNING for nofollow, and a score of at most 84; and every call of
\* SeokarAnalyzer.analyze for that markup at an https address with one http image
\* returns a report whose technical issues hold the mixed content entry once.
C25_ExamplePageFindings ==
    /\ SeokarReportsTheFourFindings
    /\ \A i \in DOMAIN outcomes :
           (/\ TwoH1NoDescriptionNoIndexNoFollow(doc)
            /\ MixedContentIssue(<<>>, url, doc) = <<MIXED_CONTENT>>) =>
               /\ outcomes[i].raised = "none"
               /\ Occurrences(outcomes[i].report.technical_issues, MIXED_CONTENT) = 1

(***************************************************************************)
(* Properties of the heading hierarchy findings (Spec)                     *)
(***************************************************************************)

\* The findings of a list with the level, the message and the element type.
FindingsWith(issues, level, message, element_type) ==
    {i \in DOMAIN issues : /\ issues[i].level = level
                           /\ issues[i].message = message
                           /\ issues[i].element_type = element_type}

\* The pairs of levels that follow one another in the sorted levels present and are
\* more than one level apart.
SkippedPairs(present) ==
    {pair \in present \X present :
        /\ pair[2] - pair[1] > 1
        /\ \A l \in present : l <= pair[1] \/ l >= pair[2]}

\* The smallest level present is not 1.
StartsIncorrectly(present) == present # {} /\ 1 \notin present

StartWarnings(issues) ==
    FindingsWith(issues, WARNING, "Heading Structure Starts Incorrectly",
                 "Headings Hierarchy")
SkippedWarnings(issues) ==
    FindingsWith(issues, WARNING, "Skipped Heading Level", "Headings Hierarchy")
LogicalFindings(issues) ==
    {i \in DOMAIN issues : /\ issues[i].message = "Logical Heading Hierarchy"
                           /\ issues[i].element_type = "Headings Hierarchy"}

\* C26: over the levels that have a heading with text, a report has one WARNING
\* that the structure starts incorrectly exactly when the smallest level is not 1,
\* one WARNING of a skipped level for each pair of neighbouring levels more than
\* one apart, and one GOOD finding of a logical hierarchy exactly when there is a
\* heading and no such WARNING, never a GOOD one together with one of the WARNINGs.
C26_HeadingHierarchyFindings ==
    report # NoneRec =>
        LET present == HeadingKeys(get_all_headings(doc))
            issues == report.issues
        IN  /\ Cardinality(StartWarnings(issues)) =
                   IF StartsIncorrectly(present) THEN 1 ELSE 0
            /\ Cardinality(SkippedWarnings(issues)) = Cardinality(SkippedPairs(present))
            /\ Cardinality(LogicalFindings(issues)) =
                   IF /\ present # {}
                      /\ StartWarnings(issues) = {}
                      /\ SkippedWarnings(issues) = {}
                   THEN 1 ELSE 0
            /\ \A i \in LogicalFindings(issues) : issues[i].level = GOOD
            /\ LogicalFindings(issues) # {} =>
                   StartWarnings(issues) = {} /\ SkippedWarnings(issues) = {}

\* A report for headings of the levels 2 and 4: both WARNINGs and no GOOD finding.
C26_Witness ==
    /\ report # NoneRec
    /\ HeadingKeys(get_all_headings(doc)) = {2, 4}
    /\ Cardinality(StartWarnings(report.issues)) = 1
    /\ Cardinality(SkippedWarnings(report.issues)) = 1
    /\ LogicalFindings(report.issues) = {}

(***************************************************************************)
(* Properties of the anchor text distribution (SpecAnchorTexts)            *)
(***************************************************************************)

\* The links extracted from the page, internal and external.
ExtractedLinks ==
    _extract_links(doc, url).internal \o _extract_links(doc, url).external

\* The bucket of an anchor text: generic before branded before short before long.
IsGeneric(t) == t \in generic_anchors_lower
IsBranded(t) ==
    page_domain_main_part(url) \notin {NoneStr, <<>>} /\ Contains(t, page_domain_main_part(url))
IsShort(t) == SplitCount(t) <= 3 /\ Len(t) <= 30
BucketOf(anchor_text) ==
    LET t == Strip(Lower(anchor_text))
    IN  CASE IsGeneric(t) -> "generic"
          [] ~IsGeneric(t) /\ IsBranded(t) -> "branded"
          [] ~IsGeneric(t) /\ ~IsBranded(t) /\ IsShort(t) -> "keyword_like_or_short_phrase"
          [] OTHER -> "descriptive_long_phrase"

\* The share of a bucket in a report, in tenths of a percent: 0 for a bucket
\* that the report does not list.
Share(rep, bucket) ==
    IF bucket \in DOMAIN rep.links.anchor_text_distribution_percent
    THEN rep.links.anchor_text_distribution_percent[bucket]
    ELSE 0

\* The shares of a report are those of the links of `counted`, each in the bucket
\* of its text.
SharesAreOf(rep, counted) ==
    /\ DOMAIN rep.links.anchor_text_distribution_percent =
           {BucketOf(ExtractedLinks[i].text) : i \in counted}
    /\ \A bucket \in AnchorCategories :
           counted # {} =>
               Share(rep, bucket) =
                   Round(1000 * Cardinality({i \in counted :
                                               BucketOf(ExtractedLinks[i].text) = bucket}),
                         Cardinality(counted))

\* The links whose anchor has a text other than the placeholder.
LinksWithAnchorText ==
    {i \in DOMAIN ExtractedLinks : ExtractedLinks[i].text # NoAnchorText}

\* C27 as amended: the distribution places every extracted link whose anchor has a
\* text (other than the placeholder of _extract_links) into exactly one of the
\* buckets generic, branded, short and long, with precedence in that order; the
\* shares reported are those of the bucket counts in the number of such links,
\* and the links without anchor text are in no bucket.
C27_LinksWithTextInOneBucket ==
    report # NoneRec => SharesAreOf(report, LinksWithAnchorText)

\* A report for two extracted links, one of them without anchor text: the other
\* one makes the whole of its bucket.
C27_Witness ==
    /\ report # NoneRec
    /\ Len(ExtractedLinks) = 2
    /\ Cardinality(LinksWithAnchorText) = 1
    /\ \E bucket \in AnchorCategories : Share(report, bucket) = 1000

\* C27 as stated: every extracted link, those without anchor text too, is in
\* exactly one bucket, so the bucket counts sum to the number of extracted links.
C27_EveryLinkInOneBucket ==
    report # NoneRec => SharesAreOf(report, DOMAIN ExtractedLinks)

(***************************************************************************)
(* Properties of the findings during a pass of analyze() (Spec)            *)
(***************************************************************************)

\* The list `before` is the beginning of the list `after`.
StartsWithList(after, before) ==
    Len(before) <= Len(after) /\ SubSeq(after, 1, Len(before)) = before

\* A step of Spec in terms of the findings: the reset that starts a pass, a step
\* of an analyzer within the pass, the assembly of the report, a step between the
\* passes.
FindingsStep ==
    /\ (pc = "idle" /\ pc' # "idle") => results' = <<>>
    /\ (pc # "idle" /\ pc' # "idle") =>
           /\ StartsWithList(results', results)
           /\ report' = report
    /\ (pc # "idle" /\ pc' = "idle") =>
           /\ pc = "seo_health"
           /\ results' = results
           /\ report'.issues = results
           /\ report'.seo_health = _calculate_seo_health_score(results)
           /\ report'.recommendations = _get_all_actionable_recommendations(results)
           /\ prev_report' = report
    /\ report' # report => (pc # "idle" /\ pc' = "idle")

\* C29: within a pass of analyze() the list of findings only grows: the pass starts
\* from an empty list, each analyzer leaves the findings already there in place and
\* in order, the score, the issues and the recommendations of the report are taken
\* from the list as the last analyzer left it, and a report, once returned, stays
\* as it is through the passes that follow.
C29_FindingsAppendOnlyWithinPass == [][FindingsStep]_vars

\* A second pass under way: the first report is returned, the pass has reset the
\* list and its analyzers have put findings on it, fewer so far than the report
\* lists.
C29_Witness ==
    /\ passes = 1
    /\ pc = "links"
    /\ report # NoneRec
    /\ Len(results) > 1
    /\ Len(results) < Len(report.issues)

====
